---- MODULE Spec2Model ----
(***************************************************************************)
(* Duplicate resolution and destructive maintenance runs of Compass LK.    *)
(*                                                                         *)
(* Texts (names, descriptions, ids, answers typed at a prompt) are         *)
(* sequences of one-character strings, so that lower-casing, stripping,    *)
(* trimming and collation are computed character by character.             *)
(* A nullable column is None (SQL NULL / JS null or undefined) or Some(v). *)
(***************************************************************************)
EXTENDS Integers, Sequences, FiniteSets, TLC

None == <<>>

Some(v) == <<v>>

\* JS truthiness of a nullable text: null, undefined and '' are falsy
TruthyStr(o) == o # None /\ Len(o[1]) > 0

\* JS truthiness of a nullable number: null, undefined and 0 are falsy
TruthyNum(o) == o # None /\ o[1] # 0

\* (x || '')
OrEmpty(o) == IF TruthyStr(o) THEN o[1] ELSE <<>>

UpperChars == <<"A","B","C","D","E","F","G","H","I","J","K","L","M",
                "N","O","P","Q","R","S","T","U","V","W","X","Y","Z">>

LowerChars == <<"a","b","c","d","e","f","g","h","i","j","k","l","m",
                "n","o","p","q","r","s","t","u","v","w","x","y","z">>

DigitChars == <<"0","1","2","3","4","5","6","7","8","9">>

WhiteChars == {" ", "\t", "\n", "\r"}

\* the characters kept by the class [a-z0-9]
AlnumLower == {LowerChars[i] : i \in 1..26} \cup {DigitChars[i] : i \in 1..10}

\* the lower-case letter of every upper-case letter
LowerOf ==
  [u \in {UpperChars[i] : i \in 1..26} |-> LowerChars[CHOOSE i \in 1..26 : UpperChars[i] = u]]

ToLowerChar(c) == IF c \in DOMAIN LowerOf THEN LowerOf[c] ELSE c

\* String.prototype.toLowerCase
toLowerCase(s) == [i \in 1..Len(s) |-> ToLowerChar(s[i])]

\* .replace(/[^a-z0-9]/g, '')
StripNonAlnum(s) == SelectSeq(s, LAMBDA c : c \in AlnumLower)

\* String.prototype.trim
trim(s) ==
  LET keep == {i \in 1..Len(s) : s[i] \notin WhiteChars}
  IN IF keep = {} THEN <<>>
     ELSE SubSeq(s, CHOOSE i \in keep : \A j \in keep : i <= j,
                    CHOOSE i \in keep : \A j \in keep : j <= i)

\* const normalize = (s = '') => String(s).toLowerCase().replace(/[^a-z0-9]/g, '').trim()
normalize(s) == trim(StripNonAlnum(toLowerCase(s)))

\* a key taken without the default: normalize(d.name), String(null) being 'null'
KeyOfWithoutDefault(d) ==
  normalize(IF d.name = None THEN <<"n","u","l","l">> ELSE d.name[1])

\* the grouping key of a row: normalize(d.name || '')
KeyOf(d) == normalize(OrEmpty(d.name))

\* collation rank of the characters an id is made of (uuid text: '-', digits,
\* lower-case letters); punctuation sorts before digits, digits before letters
CollationRanks ==
  [c \in {"-"} \cup AlnumLower |->
     IF c = "-" THEN 0
     ELSE IF \E i \in 1..10 : DigitChars[i] = c
          THEN CHOOSE i \in 1..10 : DigitChars[i] = c
          ELSE 10 + (CHOOSE i \in 1..26 : LowerChars[i] = c)]

CollationRank(c) == CollationRanks[c]

\* String.prototype.localeCompare: negative when a sorts before b
localeCompare(a, b) ==
  LET n == IF Len(a) < Len(b) THEN Len(a) ELSE Len(b)
      diff == {i \in 1..n : a[i] # b[i]}
  IN IF diff = {}
     THEN (IF Len(a) < Len(b) THEN -1 ELSE IF Len(a) > Len(b) THEN 1 ELSE 0)
     ELSE LET k == CHOOSE i \in diff : \A j \in diff : i <= j
          IN IF CollationRank(a[k]) < CollationRank(b[k]) THEN -1 ELSE 1

\* Array.prototype.sort, given the comparator's result c[i][j] for the elements
\* at positions i and j: stable, the element that compares lower comes first,
\* elements that compare equal keep their relative order
SortBy(s, c) ==
  LET before(j, i) == c[j][i] < 0 \/ (c[j][i] = 0 /\ j < i)
      rank(i) == Cardinality({j \in 1..Len(s) : before(j, i)}) + 1
  IN [k \in 1..Len(s) |-> s[CHOOSE i \in 1..Len(s) : rank(i) = k]]

\* the ascending enumeration of a finite set of positions
AscSeq(S) ==
  [k \in 1..Cardinality(S) |-> CHOOSE i \in S : Cardinality({j \in S : j < i}) = k - 1]

\* 2^32 - 1, the first number that is not an array index
MaxIndexText == <<"4","2","9","4","9","6","7","2","9","5">>

\* a property key that is a canonical array index ("0", "7", "12", not "07"):
\* own property enumeration lists such keys first, in ascending numeric order
IsArrayIndex(key) ==
  /\ Len(key) >= 1
  /\ \A i \in 1..Len(key) : \E k \in 1..10 : DigitChars[k] = key[i]
  /\ (Len(key) = 1 \/ key[1] # "0")
  /\ \/ Len(key) < Len(MaxIndexText)
     \/ Len(key) = Len(MaxIndexText) /\ localeCompare(key, MaxIndexText) < 0

\* numeric order of two canonical array-index keys
IndexCompare(a, b) ==
  IF Len(a) # Len(b) THEN Len(a) - Len(b) ELSE localeCompare(a, b)

\* the property names made of [a-z0-9] that every object literal inherits:
\* for an object written {}, object['constructor'] is the Object function
InheritedKeys == { <<"c","o","n","s","t","r","u","c","t","o","r">> }

\* if (!groups[key]) groups[key] = []; groups[key].push(d): for an inherited key
\* groups[key] is a function, nothing is assigned and push is not a function
GroupingRaises(items) == \E i \in 1..Len(items) : KeyOf(items[i]) \in InheritedKeys

\* groups[key].push(d) for every d, then Object.values(groups): one list per
\* key, rows in input order; array-index keys first, the others in the order
\* of their first insertion
GroupLists(items) ==
  LET keys == [i \in 1..Len(items) |-> KeyOf(items[i])]
      first == {i \in 1..Len(items) : \A j \in 1..(i - 1) : keys[j] # keys[i]}
      intIdx == {i \in first : IsArrayIndex(keys[i])}
      ints == AscSeq(intIdx)
      intSeq == SortBy(ints, [i \in 1..Len(ints) |-> [j \in 1..Len(ints) |->
                                IndexCompare(keys[ints[i]], keys[ints[j]])]])
      order == intSeq \o AscSeq(first \ intIdx)
  IN [k \in 1..Len(order) |->
        LET members == AscSeq({i \in 1..Len(items) : keys[i] = keys[order[k]]})
        IN [m \in 1..Len(members) |-> items[members[m]]]]

\* supabase.from('destinations').select('*'): the table's own columns, no relation
SelectAll(rows) ==
  [i \in 1..Len(rows) |-> [rows[i] EXCEPT !.destination_images = None]]

\* .select("id,name,province_id,description"): the other columns are undefined
SelectAdminColumns(rows) ==
  [i \in 1..Len(rows) |->
     [rows[i] EXCEPT !.image_url = None, !.location_lat = None,
                     !.location_lng = None, !.destination_images = None]]

\* .select(`*, provinces (*), destination_images (...)`): the images come as an array
SelectWithImages(rows) ==
  [i \in 1..Len(rows) |-> [rows[i] EXCEPT !.destination_images = Some(@)]]

\* the score of the maintenance script (higher = keep)
ScriptScore(item) ==
    (IF TruthyStr(item.description) /\ Len(trim(item.description[1])) > 0 THEN 2 ELSE 0)
  + (IF TruthyStr(item.province_id) THEN 1 ELSE 0)
  + (IF TruthyStr(item.image_url) THEN 2 ELSE 0)
  + (IF TruthyNum(item.location_lat) \/ TruthyNum(item.location_lng) THEN 1 ELSE 0)

\* the score of the admin panel's 'Remove Duplicates' handler
AdminScore(item) ==
    (IF TruthyStr(item.description) /\ Len(trim(item.description[1])) > 0 THEN 2 ELSE 0)
  + (IF TruthyStr(item.province_id) THEN 1 ELSE 0)
  + (IF TruthyStr(item.image_url) THEN 2 ELSE 0)
  + (IF TruthyNum(item.location_lat) \/ TruthyNum(item.location_lng) THEN 1 ELSE 0)

\* the score of the list view's dedupeDestinations
ListScore(item) ==
    (IF TruthyStr(item.description) /\ Len(trim(item.description[1])) > 0 THEN 2 ELSE 0)
  + (IF TruthyStr(item.province_id) THEN 1 ELSE 0)
  + (IF TruthyStr(item.image_url) THEN 2 ELSE 0)
  + (IF item.destination_images # None /\ Len(item.destination_images[1]) > 0 THEN 3 ELSE 0)
  + (IF TruthyNum(item.location_lat) \/ TruthyNum(item.location_lng) THEN 1 ELSE 0)

\* a comparator that puts the lower score first
ScriptCompareAscending(a, b) ==
  IF b.score # a.score THEN a.score - b.score
  ELSE LET al == Len(OrEmpty(a.item.description))
           bl == Len(OrEmpty(b.item.description))
       IN IF bl # al THEN bl - al
          ELSE localeCompare(a.item.id, b.item.id)

\* scored.sort of the script: score descending, then longer description, then id
ScriptCompare(a, b) ==
  IF b.score # a.score THEN b.score - a.score
  ELSE LET al == Len(OrEmpty(a.item.description))
           bl == Len(OrEmpty(b.item.description))
       IN IF bl # al THEN bl - al
          ELSE localeCompare(a.item.id, b.item.id)

\* scored.sort of the admin handler: score descending, then id
AdminCompare(a, b) ==
  IF b.score # a.score THEN b.score - a.score
  ELSE localeCompare(a.item.id, b.item.id)

\* scored.sort of dedupeDestinations: score descending, then id
ListCompare(a, b) ==
  IF b.score # a.score THEN b.score - a.score
  ELSE localeCompare(a.item.id, b.item.id)

\* a guard that lets groups of a single row through
ScriptDuplicateListsWithSingles(items) ==
  SelectSeq(GroupLists(items), LAMBDA list : ~(Len(list) < 1))

\* the groups the script acts on: if (list.length <= 1) return
ScriptDuplicateLists(items) == SelectSeq(GroupLists(items), LAMBDA list : ~(Len(list) <= 1))

\* list.map(score) then scored.sort(...), for one group of the script
ScriptScored(list) ==
  LET scored == [i \in 1..Len(list) |-> [item |-> list[i], score |-> ScriptScore(list[i])]]
  IN SortBy(scored, [i \in 1..Len(list) |-> [j \in 1..Len(list) |->
                       ScriptCompare(scored[i], scored[j])]])

\* a plan whose remove list starts one row too late (scored.slice(2))
ScriptPlanSkipsOne(items) ==
  LET lists == ScriptDuplicateLists(items)
  IN [g \in 1..Len(lists) |->
        LET scored == ScriptScored(lists[g])
        IN [keep |-> scored[1].item,
            remove |-> [j \in 1..(Len(scored) - 2) |-> scored[j + 2].item]]]

\* the script's plan: duplicates = [{ keep, remove }], one entry per group
ScriptPlan(items) ==
  LET lists == ScriptDuplicateLists(items)
  IN [g \in 1..Len(lists) |->
        LET scored == ScriptScored(lists[g])
        IN [keep |-> scored[1].item,
            remove |-> [j \in 1..(Len(scored) - 1) |-> scored[j + 1].item]]]

RECURSIVE FlatIds(_)
\* duplicates.flatMap((g) => g.remove.map((r) => r.id))
FlatIds(plan) ==
  IF plan = <<>> THEN <<>>
  ELSE [j \in 1..Len(Head(plan).remove) |-> Head(plan).remove[j].id] \o FlatIds(Tail(plan))

\* the groups the admin handler acts on: if (list.length <= 1) return
AdminDuplicateLists(items) == SelectSeq(GroupLists(items), LAMBDA list : ~(Len(list) <= 1))

\* list.map(score) then scored.sort(...), for one group of the admin handler
AdminScored(list) ==
  LET scored == [i \in 1..Len(list) |-> [item |-> list[i], score |-> AdminScore(list[i])]]
  IN SortBy(scored, [i \in 1..Len(list) |-> [j \in 1..Len(list) |->
                       AdminCompare(scored[i], scored[j])]])

RECURSIVE AdminIdsOf(_)
\* idsToDelete.push(...scored.slice(1).map((s) => s.item.id)) over the groups
AdminIdsOf(lists) ==
  IF lists = <<>> THEN <<>>
  ELSE LET scored == AdminScored(Head(lists))
       IN [j \in 1..(Len(scored) - 1) |-> scored[j + 1].item.id] \o AdminIdsOf(Tail(lists))

\* the admin handler's idsToDelete
AdminIdsToDelete(items) == AdminIdsOf(AdminDuplicateLists(items))

\* list.map(score) then scored.sort(...), for one group of dedupeDestinations
ListScored(list) ==
  LET scored == [i \in 1..Len(list) |-> [item |-> list[i], score |-> ListScore(list[i])]]
  IN SortBy(scored, [i \in 1..Len(list) |-> [j \in 1..Len(list) |->
                       ListCompare(scored[i], scored[j])]])

\* indexMap.get(id) ?? 0: the (last) position of the id in the input, from 0
IndexOfId(items, id) ==
  LET at == {i \in 1..Len(items) : items[i].id = id}
  IN IF at = {} THEN 0 ELSE (CHOOSE i \in at : \A j \in at : j <= i) - 1

\* dedupeDestinations: one chosen row per group, put back in input order
dedupeDestinations(items) ==
  LET lists == GroupLists(items)
      chosen == [g \in 1..Len(lists) |->
                   IF Len(lists[g]) = 1 THEN lists[g][1]
                   ELSE ListScored(lists[g])[1].item]
  IN SortBy(chosen, [i \in 1..Len(chosen) |-> [j \in 1..Len(chosen) |->
                       IndexOfId(items, chosen[i].id) - IndexOfId(items, chosen[j].id)]])

VARIABLES
  store,         \* the rows of the destinations table, in the order a query returns them
  ran,           \* the resolver implementations applied so far
  duplicates,    \* the script's plan: [{ keep, remove }]
  idsToDelete,   \* the admin handler's idsToDelete
  chosen,        \* the rows dedupeDestinations returns
  scores,        \* the score each implementation gave the probed row
  program,       \* the program or handler this run executes
  pc,            \* its position
  AUTO_YES,      \* --yes / -y given on the command line
  CSV_OUT,       \* --csv / --export-csv given on the command line
  targetId,      \* the id a single delete is about (id in the source)
  destinations,  \* the rows the run has loaded
  toDelete,      \* the script's toDelete
  loopIndex,     \* the script's batch loop index (i in the source)
  backups,       \* the backup artifacts written so far
  requests,      \* the delete requests sent to the store so far
  answer,        \* what was typed at the prompt, if anything
  dialog,        \* how the confirm dialog was closed, if it was shown
  before,        \* the table when the run began
  console,       \* what the run has printed or toasted so far
  exitCode,      \* the code the process exited with, if it has
  selects,       \* the number of select queries sent to the store so far
  env,           \* process.env: the credential variables
  DRY_RUN,       \* --dry-run given on the command line
  pictures,      \* the files under src/pictures, if the directory exists
  assignments,   \* the image-assignment script's assignments
  updates,       \* the update requests sent to the store so far
  localImages,   \* _localImages: the bundled picture paths, in enumeration order
  entity,        \* the destination a page renders
  shown,         \* what each page has rendered for it
  thrown,        \* the resolver implementations that raised an exception
  original,      \* a name
  variant,       \* a name that differs from it in letter case and other characters only
  keyed,         \* the keys each normalisation gave the two names
  session,       \* the user of the current auth session, if any
  checks,        \* the calls of check() of useAdmin started so far
  isAdmin,       \* useAdmin's isAdmin state
  loading,       \* useAdmin's loading state
  mounted,       \* useAdmin's mounted flag
  runs           \* the duplicate-removal runs that share the store

resolverVars == <<ran, chosen, scores>>

outVars == <<console, exitCode, selects>>

scriptVars == <<env, DRY_RUN, pictures, assignments, updates>>

matchVars == <<localImages, entity, shown>>

runVars == <<program, pc, AUTO_YES, CSV_OUT, targetId, destinations, toDelete, loopIndex,
             backups, requests, answer, dialog, before, outVars, scriptVars>>

keyVars == <<original, variant, keyed>>

adminVars == <<session, checks, isAdmin, loading, mounted>>

otherVars == <<thrown, keyVars, adminVars, runs>>

vars == <<store, duplicates, idsToDelete, resolverVars, runVars, matchVars, otherVars>>

\* a || b of two values that are undefined or a text
Or(a, b) == IF TruthyStr(a) THEN a ELSE b

\* process.env without any of the credential variables
EmptyEnv ==
  [SUPABASE_URL |-> None, VITE_SUPABASE_URL |-> None, SUPABASE_SERVICE_ROLE_KEY |-> None,
   SUPABASE_KEY |-> None, VITE_SUPABASE_KEY |-> None]

\* const SUPABASE_URL = process.env.SUPABASE_URL || process.env.VITE_SUPABASE_URL
SUPABASE_URL(e) == Or(e.SUPABASE_URL, e.VITE_SUPABASE_URL)

\* const SUPABASE_KEY = process.env.SUPABASE_SERVICE_ROLE_KEY || process.env.SUPABASE_KEY
\*                      || process.env.VITE_SUPABASE_KEY
SUPABASE_KEY(e) == Or(Or(e.SUPABASE_SERVICE_ROLE_KEY, e.SUPABASE_KEY), e.VITE_SUPABASE_KEY)

\* an environment with the URL and the service-role key set
FullEnv ==
  [EmptyEnv EXCEPT !.SUPABASE_URL = Some(<<"u">>), !.SUPABASE_SERVICE_ROLE_KEY = Some(<<"k">>)]

\* no script was launched
NoScript ==
  /\ env = EmptyEnv
  /\ DRY_RUN = FALSE
  /\ pictures = None
  /\ assignments = <<>>
  /\ updates = <<>>

\* no page is rendering
NoMatch ==
  /\ localImages = <<>>
  /\ entity = None
  /\ shown = <<>>

\* nothing raised, no name is normalised, no hook is mounted, no shared run
NoOther ==
  /\ thrown = {}
  /\ original = <<>>
  /\ variant = <<>>
  /\ keyed = <<>>
  /\ session = None
  /\ checks = <<>>
  /\ isAdmin = FALSE
  /\ loading = FALSE
  /\ mounted = FALSE
  /\ runs = <<>>

\* no script and no handler is running
NoProgram ==
  /\ console = <<>>
  /\ exitCode = None
  /\ selects = 0
  /\ NoScript
  /\ program = "none"
  /\ pc = "idle"
  /\ AUTO_YES = FALSE
  /\ CSV_OUT = FALSE
  /\ targetId = <<>>
  /\ destinations = <<>>
  /\ toDelete = <<>>
  /\ loopIndex = 0
  /\ backups = <<>>
  /\ requests = <<>>
  /\ answer = None
  /\ dialog = "none"
  /\ before = store

\* no run in progress: the resolver is applied on its own
NoRun == NoProgram /\ NoMatch

\* the ids of the rows (primary key: distinct, uuid-like text)
Ids == { <<"a">>, <<"a","1">>, <<"z","9">> }

Names == { Some(<<"T"," ","A">>), Some(<<"t","a","!">>), Some(<<"7">>) }

Descriptions == { None, Some(<<"x">>), Some(<<"x","y">>) }

ImageUrls == { None }

ImageLists == { <<>> }

\* the rows a duplicate-resolution input is drawn from
ResolveRows ==
  [id : Ids, name : Names, description : Descriptions, province_id : {Some(<<"p">>)},
   image_url : ImageUrls, location_lat : {None}, location_lng : {None},
   destination_images : ImageLists]

\* lists of rows with pairwise distinct ids
RowLists(rows) ==
  UNION { { s \in [1..n -> rows] : \A i, j \in 1..n : i # j => s[i].id # s[j].id } :
          n \in 0..Cardinality(Ids) }

InitResolve ==
  /\ store \in RowLists(ResolveRows)
  /\ ran = {}
  /\ duplicates = <<>>
  /\ idsToDelete = <<>>
  /\ chosen = <<>>
  /\ scores = <<>>
  /\ NoRun
  /\ NoOther

\* the script's grouping and scoring applied to the rows it loads
ScriptResolve ==
  /\ "script" \notin ran
  /\ ran' = ran \cup {"script"}
  /\ IF GroupingRaises(SelectAll(store))
     THEN thrown' = thrown \cup {"script"} /\ UNCHANGED duplicates
     ELSE duplicates' = ScriptPlan(SelectAll(store)) /\ UNCHANGED thrown
  /\ UNCHANGED <<store, idsToDelete, chosen, scores, runVars, matchVars, keyVars, adminVars, runs>>

\* the admin handler's grouping and scoring applied to the rows it loads
AdminResolve ==
  /\ "admin" \notin ran
  /\ ran' = ran \cup {"admin"}
  /\ IF GroupingRaises(SelectAdminColumns(store))
     THEN thrown' = thrown \cup {"admin"} /\ UNCHANGED idsToDelete
     ELSE idsToDelete' = AdminIdsToDelete(SelectAdminColumns(store)) /\ UNCHANGED thrown
  /\ UNCHANGED <<store, duplicates, chosen, scores, runVars, matchVars, keyVars, adminVars, runs>>

\* the list view's deduplication applied to the rows it loads
ListResolve ==
  /\ "list" \notin ran
  /\ ran' = ran \cup {"list"}
  /\ IF GroupingRaises(SelectWithImages(store))
     THEN thrown' = thrown \cup {"list"} /\ UNCHANGED chosen
     ELSE chosen' = dedupeDestinations(SelectWithImages(store)) /\ UNCHANGED thrown
  /\ UNCHANGED <<store, duplicates, idsToDelete, scores, runVars, matchVars, keyVars, adminVars, runs>>

NextResolve == ScriptResolve \/ AdminResolve \/ ListResolve

SpecResolve == InitResolve /\ [][NextResolve]_vars

\* names without any letter or digit, a name that is a number, and a name whose
\* key is a property every object inherits
OddNames ==
  { None, Some(<<>>), Some(<<" ">>), Some(<<"!","?">>), Some(<<"7">>),
    Some(<<"C","o","n","s","t","r","u","c","t","o","r">>) }

\* the rows a list with such names is drawn from
OddRows ==
  [id : Ids, name : OddNames, description : {Some(<<"x">>)}, province_id : {Some(<<"p">>)},
   image_url : ImageUrls, location_lat : {None}, location_lng : {None},
   destination_images : ImageLists]

InitNames ==
  /\ store \in RowLists(OddRows)
  /\ ran = {}
  /\ duplicates = <<>>
  /\ idsToDelete = <<>>
  /\ chosen = <<>>
  /\ scores = <<>>
  /\ NoRun
  /\ NoOther

SpecNames == InitNames /\ [][NextResolve]_vars

\* ---------------------------------------------------------------------------
\* Scoring of one row, every combination of the scored columns

ProbeDescriptions == { None, Some(<<>>), Some(<<" ">>), Some(<<"x">>), Some(<<" ","x"," ">>) }

ProbeProvinces == { None, Some(<<"p">>) }

ProbeImageUrls == { None, Some(<<>>), Some(<<"y">>) }

ProbeLats == { None, Some(0), Some(7) }

ProbeLngs == { None, Some(0), Some(80) }

ProbeImageLists == { <<>>, <<"i">> }

ProbeRows ==
  [id : {<<"a","1">>}, name : {Some(<<"T"," ","A">>)}, description : ProbeDescriptions,
   province_id : ProbeProvinces, image_url : ProbeImageUrls, location_lat : ProbeLats,
   location_lng : ProbeLngs, destination_images : ProbeImageLists]

InitScore ==
  /\ store \in { <<r>> : r \in ProbeRows }
  /\ ran = {}
  /\ duplicates = <<>>
  /\ idsToDelete = <<>>
  /\ chosen = <<>>
  /\ scores = <<>>
  /\ NoRun
  /\ NoOther

\* the script's scoring step on the row as the script loads it
ScriptScoreRow ==
  /\ "script" \notin ran
  /\ ran' = ran \cup {"script"}
  /\ scores' = [x \in ran' |-> IF x = "script" THEN ScriptScore(SelectAll(store)[1]) ELSE scores[x]]
  /\ UNCHANGED <<store, duplicates, idsToDelete, chosen, runVars, matchVars, otherVars>>

\* the admin handler's scoring step on the row as the admin page loads it
AdminScoreRow ==
  /\ "admin" \notin ran
  /\ ran' = ran \cup {"admin"}
  /\ scores' = [x \in ran' |-> IF x = "admin" THEN AdminScore(SelectAdminColumns(store)[1]) ELSE scores[x]]
  /\ UNCHANGED <<store, duplicates, idsToDelete, chosen, runVars, matchVars, otherVars>>

\* the list view's scoring step on the row as the list page loads it
ListScoreRow ==
  /\ "list" \notin ran
  /\ ran' = ran \cup {"list"}
  /\ scores' = [x \in ran' |-> IF x = "list" THEN ListScore(SelectWithImages(store)[1]) ELSE scores[x]]
  /\ UNCHANGED <<store, duplicates, idsToDelete, chosen, runVars, matchVars, otherVars>>

NextScore == ScriptScoreRow \/ AdminScoreRow \/ ListScoreRow

SpecScore == InitScore /\ [][NextScore]_vars

\* ---------------------------------------------------------------------------
\* Runs of the destructive programs against the store

Programs == { "remove_duplicates", "delete_destination",
              "admin_remove_duplicates", "admin_delete" }

RunDescriptions == { None, Some(<<"x">>) }

\* the rows a run's table is drawn from
RunRows ==
  [id : Ids, name : Names, description : RunDescriptions, province_id : {Some(<<"p">>)},
   image_url : {None}, location_lat : {None}, location_lng : {None},
   destination_images : {<<>>}]

\* what may be typed at a prompt
Answers == { <<"Y","E","S">>, <<" ","Y","E","S">>, <<"y","e","s">>, <<>> }

\* how the store answers a delete request: rows deleted, request rejected with
\* an error, or no error and nothing deleted (a row-level policy hides the rows)
DeleteOutcomes == { "ok", "error", "blocked" }

\* the error objects the store client returns: { message, status }
StoreErrors ==
  { [message |-> <<"t","i","m","e","o","u","t">>, status |-> 500],
    [message |-> <<"p","e","r","m","i","s","s","i","o","n"," ","d","e","n","i","e","d">>,
     status |-> 403] }

\* const batchSize = 100 of remove_duplicates.mjs
batchSize == 100

\* a prompt that also takes the lower-case word for a confirmation
AffirmativeAnyCase(ans) == toLowerCase(trim(ans)) = <<"y","e","s">>

\* ans = (await question(...)).trim(); proceed unless ans !== 'YES'
Affirmative(ans) == trim(ans) = <<"Y","E","S">>

\* String.prototype.includes
Includes(s, t) == \E i \in 0..(Len(s) - Len(t)) : SubSeq(s, i + 1, i + Len(t)) = t

\* .delete().in('id', ids) / .delete().eq('id', id) taking effect
DeleteRows(rows, ids) ==
  SelectSeq(rows, LAMBDA r : \A n \in 1..Len(ids) : ids[n] # r.id)

\* toDelete.slice(i, i + batchSize)
Slice(list, from, size) ==
  SubSeq(list, from + 1, IF from + size < Len(list) THEN from + size ELSE Len(list))

\* the JSON backup { timestamp, groups } of the script
BackupOf(plan) == [kind |-> "json", timestamp |-> "now", groups |-> plan]

RECURSIVE CsvRows(_, _)
\* the CSV lines group_index,keep_id,...,remove_id,... after the header
CsvRows(plan, gi) ==
  IF plan = <<>> THEN <<>>
  ELSE [j \in 1..Len(Head(plan).remove) |->
          <<gi, Head(plan).keep.id, Head(plan).remove[j].id>>]
       \o CsvRows(Tail(plan), gi + 1)

\* one line of output: console.log ("log"), console.error ("error") or a toast
\* ("toast", "toast_destructive"); text is the literal part, ids the ids it
\* names, message the error message it carries, count the number it announces
Msg(out, text, ids, message, count) ==
  [out |-> out, text |-> text, ids |-> ids, message |-> message, count |-> count]

\* a line that only carries its literal text
Say(out, text) == Msg(out, text, <<>>, None, None)

\* a run of one of the four programs, its script past the top-level checks
InitRun ==
  /\ store \in RowLists(RunRows)
  /\ program \in Programs
  /\ pc = IF program \in {"remove_duplicates", "delete_destination"} THEN "start" ELSE "mount"
  /\ AUTO_YES \in (IF program \in {"remove_duplicates", "delete_destination"} THEN BOOLEAN ELSE {FALSE})
  /\ CSV_OUT \in (IF program = "remove_duplicates" THEN BOOLEAN ELSE {FALSE})
  /\ targetId \in (IF program = "delete_destination" THEN Ids ELSE {<<>>})
  /\ destinations = <<>>
  /\ duplicates = <<>>
  /\ idsToDelete = <<>>
  /\ toDelete = <<>>
  /\ loopIndex = 0
  /\ backups = <<>>
  /\ requests = <<>>
  /\ answer = None
  /\ dialog = "none"
  /\ before = store
  /\ ran = {}
  /\ chosen = <<>>
  /\ scores = <<>>
  /\ console = <<>>
  /\ exitCode = None
  /\ selects = 0
  /\ env = IF program \in {"remove_duplicates", "delete_destination"} THEN FullEnv ELSE EmptyEnv
  /\ DRY_RUN = FALSE
  /\ pictures = None
  /\ assignments = <<>>
  /\ updates = <<>>
  /\ NoMatch
  /\ NoOther

\* remove_duplicates.mjs main: the select resolves; group, score, back up, summarise
\* (the per-group lines of the summary are left out of the console)
ScriptFetch ==
  /\ program = "remove_duplicates" /\ pc = "start"
  /\ selects' = selects + 1
  /\ \E error \in BOOLEAN, err \in StoreErrors :
       LET loaded == SelectAll(store)
           plan == ScriptPlan(loaded)
           fetching == Say("log", "Fetching destinations from Supabase...")
       IN IF error
          THEN /\ pc' = "failed_fetch"
               /\ console' = console \o <<fetching,
                    Msg("error", "Error fetching destinations:", <<>>, Some(err.message), None)>>
               /\ exitCode' = Some(1)
               /\ UNCHANGED <<destinations, duplicates, toDelete, backups>>
          ELSE IF Len(loaded) = 0
          THEN /\ pc' = "nothing"
               /\ console' = console \o <<fetching,
                    Say("log", "No destinations found. Nothing to do.")>>
               /\ exitCode' = Some(0)
               /\ UNCHANGED <<destinations, duplicates, toDelete, backups>>
          ELSE IF Len(plan) = 0
          THEN /\ pc' = "nothing"
               /\ destinations' = loaded
               /\ duplicates' = plan
               /\ console' = console \o <<fetching, Say("log", "No duplicate groups found.")>>
               /\ exitCode' = Some(0)
               /\ UNCHANGED <<toDelete, backups>>
          ELSE /\ destinations' = loaded
               /\ duplicates' = plan
               /\ toDelete' = FlatIds(plan)
               /\ backups' = backups \o <<BackupOf(plan)>>
                             \o (IF CSV_OUT THEN <<[kind |-> "csv", rows |-> CsvRows(plan, 1)]>>
                                 ELSE <<>>)
               /\ console' = console
                    \o <<fetching, Say("log", "Backup of duplicate groups written to")>>
                    \o (IF CSV_OUT THEN <<Say("log", "CSV backup written to")>> ELSE <<>>)
                    \o <<Msg("log", "Found duplicate groups; rows marked for deletion.",
                             <<>>, None, Some(Len(toDelete')))>>
                    \o (IF AUTO_YES
                        THEN <<Say("log", "--yes provided, proceeding without prompt")>>
                        ELSE <<>>)
               /\ exitCode' = exitCode
               /\ pc' = IF AUTO_YES THEN "delete" ELSE "prompt"
  /\ UNCHANGED <<store, idsToDelete, resolverVars, program, AUTO_YES, CSV_OUT, targetId,
                 loopIndex, requests, answer, dialog, before>>
  /\ UNCHANGED <<scriptVars, matchVars, otherVars>>

\* remove_duplicates.mjs main: the prompt is answered
ScriptAnswer ==
  /\ program = "remove_duplicates" /\ pc = "prompt"
  /\ \E ans \in Answers :
       /\ answer' = Some(ans)
       /\ pc' = IF Affirmative(ans) THEN "delete" ELSE "aborted"
       /\ console' = IF Affirmative(ans) THEN console
                     ELSE Append(console, Say("log", "Aborted by user. No deletions performed."))
       /\ exitCode' = IF Affirmative(ans) THEN exitCode ELSE Some(0)
  /\ UNCHANGED <<store, duplicates, idsToDelete, resolverVars, program, AUTO_YES, CSV_OUT,
                 targetId, destinations, toDelete, loopIndex, backups, requests, dialog, before>>
  /\ UNCHANGED <<selects, scriptVars, matchVars, otherVars>>

\* the input ends and the prompt is never answered: the script ends there
ScriptNoAnswer ==
  /\ program = "remove_duplicates" /\ pc = "prompt"
  /\ pc' = "unanswered"
  /\ exitCode' = Some(0)
  /\ UNCHANGED <<store, duplicates, idsToDelete, resolverVars, program, AUTO_YES, CSV_OUT,
                 targetId, destinations, toDelete, loopIndex, backups, requests, answer,
                 dialog, before>>
  /\ UNCHANGED <<console, selects, scriptVars, matchVars, otherVars>>

\* one turn of the batch loop that sends a failed batch again
ScriptDeleteBatchRetrying ==
  /\ program = "remove_duplicates" /\ pc = "delete"
  /\ loopIndex < Len(toDelete)
  /\ Len(requests) < 3
  /\ \E outcome \in DeleteOutcomes, delErr \in StoreErrors :
       LET batch == Slice(toDelete, loopIndex, batchSize)
       IN /\ requests' = Append(requests, [by |-> program, ids |-> batch])
          /\ IF outcome = "error"
             THEN /\ pc' = "delete"
                  /\ console' = Append(console,
                       Msg("error", "Error deleting batch:", <<>>, Some(delErr.message), None))
                  /\ UNCHANGED <<store, loopIndex, exitCode>>
             ELSE /\ store' = IF outcome = "ok" THEN DeleteRows(store, batch) ELSE store
                  /\ loopIndex' = loopIndex + batchSize
                  /\ pc' = IF loopIndex' < Len(toDelete) THEN "delete" ELSE "done"
                  /\ console' = console
                       \o <<Msg("log", "Deleted batch: rows", <<>>, None, Some(Len(batch)))>>
                       \o (IF loopIndex' < Len(toDelete) THEN <<>>
                           ELSE <<Msg("log", "Deletion complete. rows deleted.",
                                      <<>>, None, Some(Len(toDelete)))>>)
                  /\ exitCode' = IF loopIndex' < Len(toDelete) THEN exitCode ELSE Some(0)
  /\ UNCHANGED <<duplicates, idsToDelete, resolverVars, program, AUTO_YES, CSV_OUT, targetId,
                 destinations, toDelete, backups, answer, dialog, before>>
  /\ UNCHANGED <<selects, scriptVars, matchVars, otherVars>>

\* remove_duplicates.mjs main: one turn of the batch loop (the batch number of
\* 'Deleted batch k' is left out of the console)
ScriptDeleteBatch ==
  /\ program = "remove_duplicates" /\ pc = "delete"
  /\ loopIndex < Len(toDelete)
  /\ \E outcome \in DeleteOutcomes, delErr \in StoreErrors :
       LET batch == Slice(toDelete, loopIndex, batchSize)
       IN /\ requests' = Append(requests, [by |-> program, ids |-> batch])
          /\ IF outcome = "error"
             THEN /\ pc' = "failed_delete"
                  /\ console' = Append(console,
                       Msg("error", "Error deleting batch:", <<>>, Some(delErr.message), None))
                  /\ exitCode' = Some(1)
                  /\ UNCHANGED <<store, loopIndex>>
             ELSE /\ store' = IF outcome = "ok" THEN DeleteRows(store, batch) ELSE store
                  /\ loopIndex' = loopIndex + batchSize
                  /\ pc' = IF loopIndex' < Len(toDelete) THEN "delete" ELSE "done"
                  /\ console' = console
                       \o <<Msg("log", "Deleted batch: rows", <<>>, None, Some(Len(batch)))>>
                       \o (IF loopIndex' < Len(toDelete) THEN <<>>
                           ELSE <<Msg("log", "Deletion complete. rows deleted.",
                                      <<>>, None, Some(Len(toDelete)))>>)
                  /\ exitCode' = IF loopIndex' < Len(toDelete) THEN exitCode ELSE Some(0)
  /\ UNCHANGED <<duplicates, idsToDelete, resolverVars, program, AUTO_YES, CSV_OUT, targetId,
                 destinations, toDelete, backups, answer, dialog, before>>
  /\ UNCHANGED <<selects, scriptVars, matchVars, otherVars>>

\* a lookup that goes on to the prompt whether or not the id was found
DeleteLookupProceeding ==
  /\ program = "delete_destination" /\ pc = "start"
  /\ selects' = selects + 1
  /\ destinations' = SelectSeq(SelectAll(store), LAMBDA r : r.id = targetId)
  /\ console' = console
       \o <<Msg("log", "Looking up destination id=", <<targetId>>, None, None),
            Msg("log", "Found destination:", <<targetId>>, None, None)>>
  /\ pc' = IF AUTO_YES THEN "delete" ELSE "prompt"
  /\ UNCHANGED <<store, duplicates, idsToDelete, resolverVars, program, AUTO_YES, CSV_OUT,
                 targetId, toDelete, loopIndex, backups, requests, answer, dialog, before>>
  /\ UNCHANGED <<exitCode, scriptVars, matchVars, otherVars>>

\* delete_destination.mjs main: the lookup of the id resolves
DeleteLookup ==
  /\ program = "delete_destination" /\ pc = "start"
  /\ selects' = selects + 1
  /\ \E fetchErr \in BOOLEAN, err \in StoreErrors :
       LET existing == SelectSeq(SelectAll(store), LAMBDA r : r.id = targetId)
           looking == Msg("log", "Looking up destination id=", <<targetId>>, None, None)
       IN IF fetchErr
          THEN /\ pc' = "failed_fetch"
               /\ console' = console \o <<looking,
                    Msg("error", "Error fetching destination:", <<>>, Some(err.message), None)>>
               /\ exitCode' = Some(1)
               /\ UNCHANGED destinations
          ELSE IF existing = <<>>
          THEN /\ pc' = "nothing"
               /\ console' = console \o <<looking,
                    Say("log", "No destination found with that id. Nothing to delete.")>>
               /\ exitCode' = Some(0)
               /\ UNCHANGED destinations
          ELSE /\ destinations' = existing
               /\ console' = console
                    \o <<looking, Msg("log", "Found destination:", <<existing[1].id>>, None, None)>>
                    \o (IF AUTO_YES
                        THEN <<Say("log", "--yes provided, proceeding without prompt")>>
                        ELSE <<>>)
               /\ exitCode' = exitCode
               /\ pc' = IF AUTO_YES THEN "delete" ELSE "prompt"
  /\ UNCHANGED <<store, duplicates, idsToDelete, resolverVars, program, AUTO_YES, CSV_OUT,
                 targetId, toDelete, loopIndex, backups, requests, answer, dialog, before>>
  /\ UNCHANGED <<scriptVars, matchVars, otherVars>>

\* delete_destination.mjs main: the prompt is answered
DeleteAnswer ==
  /\ program = "delete_destination" /\ pc = "prompt"
  /\ \E ans \in Answers :
       /\ answer' = Some(ans)
       /\ pc' = IF Affirmative(ans) THEN "delete" ELSE "aborted"
       /\ console' = IF Affirmative(ans) THEN console
                     ELSE Append(console, Say("log", "Aborted by user. No deletions performed."))
       /\ exitCode' = IF Affirmative(ans) THEN exitCode ELSE Some(0)
  /\ UNCHANGED <<store, duplicates, idsToDelete, resolverVars, program, AUTO_YES, CSV_OUT,
                 targetId, destinations, toDelete, loopIndex, backups, requests, dialog, before>>
  /\ UNCHANGED <<selects, scriptVars, matchVars, otherVars>>

\* the input ends and the prompt is never answered
DeleteNoAnswer ==
  /\ program = "delete_destination" /\ pc = "prompt"
  /\ pc' = "unanswered"
  /\ exitCode' = Some(0)
  /\ UNCHANGED <<store, duplicates, idsToDelete, resolverVars, program, AUTO_YES, CSV_OUT,
                 targetId, destinations, toDelete, loopIndex, backups, requests, answer,
                 dialog, before>>
  /\ UNCHANGED <<console, selects, scriptVars, matchVars, otherVars>>

\* delete_destination.mjs main: the delete request
DeleteRequest ==
  /\ program = "delete_destination" /\ pc = "delete"
  /\ \E outcome \in DeleteOutcomes, error \in StoreErrors :
       /\ requests' = Append(requests, [by |-> program, ids |-> <<targetId>>])
       /\ IF outcome = "error"
          THEN /\ pc' = "failed_delete"
               /\ console' = Append(console,
                    Msg("error", "Error deleting destination:", <<>>, Some(error.message), None))
               /\ exitCode' = Some(1)
               /\ UNCHANGED store
          ELSE /\ store' = IF outcome = "ok" THEN DeleteRows(store, <<targetId>>) ELSE store
               /\ pc' = "verify"
               /\ UNCHANGED <<console, exitCode>>
  /\ UNCHANGED <<duplicates, idsToDelete, resolverVars, program, AUTO_YES, CSV_OUT, targetId,
                 destinations, toDelete, loopIndex, backups, answer, dialog, before>>
  /\ UNCHANGED <<selects, scriptVars, matchVars, otherVars>>

\* delete_destination.mjs main: the verification query
DeleteVerify ==
  /\ program = "delete_destination" /\ pc = "verify"
  /\ selects' = selects + 1
  /\ \E isError \in BOOLEAN, verifyErr \in StoreErrors :
       IF isError
       THEN /\ pc' = "failed_verify"
            /\ console' = Append(console,
                 Msg("error", "Delete may have succeeded but verification query failed:",
                     <<>>, Some(verifyErr.message), None))
            /\ exitCode' = Some(1)
       ELSE IF \E n \in 1..Len(store) : store[n].id = targetId
       THEN /\ pc' = "failed_still_exists"
            /\ console' = Append(console,
                 Say("error", "Delete failed: destination still exists after delete request."))
            /\ exitCode' = Some(1)
       ELSE /\ pc' = "done"
            /\ console' = Append(console,
                 Msg("log", "Destination deleted successfully.", <<targetId>>, None, None))
            /\ exitCode' = Some(0)
  /\ UNCHANGED <<store, duplicates, idsToDelete, resolverVars, program, AUTO_YES, CSV_OUT,
                 targetId, destinations, toDelete, loopIndex, backups, requests, answer,
                 dialog, before>>
  /\ UNCHANGED <<scriptVars, matchVars, otherVars>>

\* AdminDashboard fetchDestinations: on mount, and again after a removal
fetchDestinations ==
  /\ program \in {"admin_remove_duplicates", "admin_delete"}
  /\ pc \in {"mount", "refresh"}
  /\ selects' = selects + 1
  /\ \E error \in BOOLEAN :
       /\ destinations' = IF error THEN destinations ELSE SelectAdminColumns(store)
       /\ console' = IF error
                     THEN Append(console,
                            Say("toast_destructive", "Error: Failed to load destinations"))
                     ELSE console
  /\ pc' = IF pc = "mount" THEN "idle" ELSE "returned"
  /\ UNCHANGED <<store, duplicates, idsToDelete, resolverVars, program, AUTO_YES, CSV_OUT,
                 targetId, toDelete, loopIndex, backups, requests, answer, dialog, before>>
  /\ UNCHANGED <<exitCode, scriptVars, matchVars, otherVars>>

\* AdminDashboard 'Remove Duplicates' onClick, up to the delete request
AdminRemoveDuplicatesClick ==
  /\ program = "admin_remove_duplicates" /\ pc = "idle"
  /\ \E ok \in BOOLEAN :
       /\ dialog' = IF ok THEN "ok" ELSE "cancel"
       /\ IF ~ok
          THEN pc' = "returned" /\ UNCHANGED <<idsToDelete, console>>
          ELSE /\ idsToDelete' = AdminIdsToDelete(destinations)
               /\ pc' = IF Len(idsToDelete') = 0 THEN "returned" ELSE "delete"
               /\ console' = IF Len(idsToDelete') = 0
                             THEN Append(console,
                                    Say("toast", "No duplicates: No duplicate destinations found."))
                             ELSE console
  /\ UNCHANGED <<store, duplicates, resolverVars, program, AUTO_YES, CSV_OUT, targetId,
                 destinations, toDelete, loopIndex, backups, requests, answer, before>>
  /\ UNCHANGED <<exitCode, selects, scriptVars, matchVars, otherVars>>

\* AdminDashboard 'Remove Duplicates' onClick: the bulk delete
AdminBulkDelete ==
  /\ program = "admin_remove_duplicates" /\ pc = "delete"
  /\ \E outcome \in DeleteOutcomes, error \in StoreErrors :
       /\ requests' = Append(requests, [by |-> program, ids |-> idsToDelete])
       /\ IF outcome = "error"
          THEN /\ pc' = "returned"
               /\ console' = Append(console,
                    Msg("toast_destructive", "Error deleting duplicates",
                        <<>>, Some(error.message), None))
               /\ UNCHANGED store
          ELSE /\ store' = IF outcome = "ok" THEN DeleteRows(store, idsToDelete) ELSE store
               /\ console' = Append(console,
                    Msg("toast", "Duplicates removed: Deleted duplicate destinations.",
                        <<>>, None, Some(Len(idsToDelete))))
               /\ pc' = "refresh"
  /\ UNCHANGED <<duplicates, idsToDelete, resolverVars, program, AUTO_YES, CSV_OUT, targetId,
                 destinations, toDelete, loopIndex, backups, answer, dialog, before>>
  /\ UNCHANGED <<exitCode, selects, scriptVars, matchVars, otherVars>>

\* AdminDashboard 'Delete' onClick of one listed destination, up to getUser
AdminDeleteClick ==
  /\ program = "admin_delete" /\ pc = "idle"
  /\ \E k \in 1..Len(destinations), ok \in BOOLEAN :
       /\ targetId' = destinations[k].id
       /\ dialog' = IF ok THEN "ok" ELSE "cancel"
       /\ pc' = IF ok THEN "auth" ELSE "returned"
  /\ UNCHANGED <<store, duplicates, idsToDelete, resolverVars, program, AUTO_YES, CSV_OUT,
                 destinations, toDelete, loopIndex, backups, requests, answer, before>>
  /\ UNCHANGED <<outVars, scriptVars, matchVars, otherVars>>

\* AdminDashboard 'Delete' onClick: getUser resolves
AdminDeleteAuth ==
  /\ program = "admin_delete" /\ pc = "auth"
  /\ \E user \in BOOLEAN :
       /\ pc' = IF user THEN "delete" ELSE "returned"
       /\ console' = IF user THEN console
                     ELSE Append(console,
                            Say("toast_destructive",
                                "Authentication: Please sign in to perform this action"))
  /\ UNCHANGED <<store, duplicates, idsToDelete, resolverVars, program, AUTO_YES, CSV_OUT,
                 targetId, destinations, toDelete, loopIndex, backups, requests, answer,
                 dialog, before>>
  /\ UNCHANGED <<exitCode, selects, scriptVars, matchVars, otherVars>>

\* AdminDashboard 'Delete' onClick: the delete request, then fetchDestinations
AdminDeleteRequest ==
  /\ program = "admin_delete" /\ pc = "delete"
  /\ \E outcome \in DeleteOutcomes, error \in StoreErrors, refetchError \in BOOLEAN :
       LET msg == error.message
           permission == <<"p","e","r","m","i","s","s","i","o","n">>
           policy == <<"p","o","l","i","c","y">>
       IN
       /\ requests' = Append(requests, [by |-> program, ids |-> <<targetId>>])
       /\ IF outcome = "error"
          THEN /\ pc' = "returned"
               /\ console' = Append(console,
                    IF \/ Includes(toLowerCase(msg), permission)
                       \/ Includes(toLowerCase(msg), policy)
                       \/ error.status = 403
                    THEN Say("toast_destructive",
                             "Permission denied: Delete blocked by RLS/policies.")
                    ELSE Msg("toast_destructive", "Error deleting", <<>>, Some(msg), None))
               /\ UNCHANGED <<store, destinations, selects>>
          ELSE /\ store' = IF outcome = "ok" THEN DeleteRows(store, <<targetId>>) ELSE store
               /\ destinations' = IF refetchError THEN destinations
                                  ELSE SelectAdminColumns(store')
               /\ console' = IF refetchError
                             THEN Append(console,
                                    Say("toast_destructive", "Error: Failed to load destinations"))
                             ELSE console
               /\ selects' = selects + 1
               /\ pc' = "verify"
  /\ UNCHANGED <<duplicates, idsToDelete, resolverVars, program, AUTO_YES, CSV_OUT, targetId,
                 toDelete, loopIndex, backups, answer, dialog, before>>
  /\ UNCHANGED <<exitCode, scriptVars, matchVars, otherVars>>

\* AdminDashboard 'Delete' onClick: the verification query and its toast
AdminDeleteVerify ==
  /\ program = "admin_delete" /\ pc = "verify"
  /\ selects' = selects + 1
  /\ \E checkErr \in BOOLEAN :
       IF checkErr
       THEN /\ pc' = "deleted_unverified"
            /\ console' = Append(console,
                 Say("toast", "Deleted (verification failed): Delete request completed; could not verify result due to a follow-up query error."))
            /\ UNCHANGED destinations
       ELSE IF \E n \in 1..Len(store) : store[n].id = targetId
       THEN /\ pc' = "delete_failed"
            /\ console' = Append(console,
                 Say("toast_destructive",
                     "Delete failed: The destination still exists after the delete request."))
            /\ UNCHANGED destinations
       ELSE /\ pc' = "deleted"
            /\ destinations' = SelectSeq(destinations, LAMBDA x : x.id # targetId)
            /\ console' = Append(console, Msg("toast", "Deleted: removed.", <<targetId>>, None, None))
  /\ UNCHANGED <<store, duplicates, idsToDelete, resolverVars, program, AUTO_YES, CSV_OUT,
                 targetId, toDelete, loopIndex, backups, requests, answer, dialog, before>>
  /\ UNCHANGED <<exitCode, scriptVars, matchVars, otherVars>>

Next ==
  \/ ScriptFetch \/ ScriptAnswer \/ ScriptNoAnswer \/ ScriptDeleteBatch
  \/ DeleteLookup \/ DeleteAnswer \/ DeleteNoAnswer \/ DeleteRequest \/ DeleteVerify
  \/ fetchDestinations \/ AdminRemoveDuplicatesClick \/ AdminBulkDelete
  \/ AdminDeleteClick \/ AdminDeleteAuth \/ AdminDeleteRequest \/ AdminDeleteVerify

Spec == InitRun /\ [][Next]_vars

\* ---------------------------------------------------------------------------
\* The deletion step on a large plan: one group of many rows of the same name

\* the largest number of remove candidates in a plan
MaxPlan == 101

\* three-digit ids "000", "001", ...: their collation order is their numeric order
IdText(k) ==
  <<DigitChars[(k \div 100) + 1], DigitChars[((k \div 10) % 10) + 1], DigitChars[(k % 10) + 1]>>

\* the k-th of the rows sharing one name; all have the same score
BatchRow(k) ==
  [id |-> IdText(k), name |-> Some(<<"7">>), description |-> None,
   province_id |-> Some(<<"p">>), image_url |-> None, location_lat |-> None,
   location_lng |-> None, destination_images |-> <<>>]

\* the state of a removal run that has planned and confirmed the removal of n
\* rows and is about to send its first delete request
InitBatch ==
  \E n \in 1..MaxPlan :
    LET rows == [k \in 1..(n + 1) |-> BatchRow(k - 1)]
        ids == [k \in 1..n |-> IdText(k)]
        plan == <<[keep |-> SelectAll(rows)[1],
                   remove |-> [k \in 1..n |-> SelectAll(rows)[k + 1]]]>>
    IN /\ store = rows
       /\ before = rows
       /\ program \in {"remove_duplicates", "admin_remove_duplicates"}
       /\ pc = "delete"
       /\ AUTO_YES = (program = "remove_duplicates")
       /\ CSV_OUT = FALSE
       /\ targetId = <<>>
       /\ destinations = IF program = "remove_duplicates" THEN SelectAll(rows)
                         ELSE SelectAdminColumns(rows)
       /\ duplicates = IF program = "remove_duplicates" THEN plan ELSE <<>>
       /\ toDelete = IF program = "remove_duplicates" THEN ids ELSE <<>>
       /\ idsToDelete = IF program = "remove_duplicates" THEN <<>> ELSE ids
       /\ loopIndex = 0
       /\ backups = IF program = "remove_duplicates" THEN <<BackupOf(plan)>> ELSE <<>>
       /\ requests = <<>>
       /\ answer = None
       /\ dialog = IF program = "remove_duplicates" THEN "none" ELSE "ok"
       /\ ran = {}
       /\ chosen = <<>>
       /\ scores = <<>>
       /\ console = IF program = "remove_duplicates"
                    THEN <<Say("log", "Fetching destinations from Supabase..."),
                           Say("log", "Backup of duplicate groups written to"),
                           Msg("log", "Found duplicate groups; rows marked for deletion.",
                               <<>>, None, Some(n)),
                           Say("log", "--yes provided, proceeding without prompt")>>
                    ELSE <<>>
       /\ exitCode = None
       /\ selects = 1
       /\ env = IF program = "remove_duplicates" THEN FullEnv ELSE EmptyEnv
       /\ DRY_RUN = FALSE
       /\ pictures = None
       /\ assignments = <<>>
       /\ updates = <<>>
       /\ NoMatch
       /\ NoOther

NextBatch == ScriptDeleteBatch \/ AdminBulkDelete

SpecBatch == InitBatch /\ [][NextBatch]_vars

\* ---------------------------------------------------------------------------
\* The three scripts from their launch: environment, arguments, pictures

ScriptPrograms == { "remove_duplicates", "delete_destination", "assign_local_images" }

\* the environments a script is launched in
EnvCases ==
  { EmptyEnv,
    FullEnv,
    [EmptyEnv EXCEPT !.VITE_SUPABASE_URL = Some(<<"u">>), !.VITE_SUPABASE_KEY = Some(<<"k">>)],
    [EmptyEnv EXCEPT !.SUPABASE_URL = Some(<<"u">>)],
    [EmptyEnv EXCEPT !.SUPABASE_KEY = Some(<<"k">>)],
    [EmptyEnv EXCEPT !.SUPABASE_URL = Some(<<>>), !.SUPABASE_SERVICE_ROLE_KEY = Some(<<"k">>)] }

\* a credential check that only looks at the URL
HasCredentialsUrlOnly(e) == ~(~TruthyStr(SUPABASE_URL(e)))

\* the scripts go on unless (!SUPABASE_URL || !SUPABASE_KEY)
HasCredentials(e) == ~(~TruthyStr(SUPABASE_URL(e)) \/ ~TruthyStr(SUPABASE_KEY(e)))

\* the line all three scripts print when a credential is missing
MissingCredentials == Say("error", "Missing Supabase credentials.")

\* the extensions of /\.(jpg|jpeg|png|webp|gif)$/i
ImageExts ==
  { <<"j","p","g">>, <<"j","p","e","g">>, <<"p","n","g">>, <<"w","e","b","p">>, <<"g","i","f">> }

\* the extension the regular expression matches at the end of f, if any
ImageExtOf(f) ==
  { e \in ImageExts : /\ Len(f) > Len(e)
                      /\ toLowerCase(SubSeq(f, Len(f) - Len(e), Len(f))) = <<".">> \o e }

\* /\.(jpg|jpeg|png|webp|gif)$/i.test(f)
IsImageFile(f) == ImageExtOf(f) # {}

\* filename.replace(/\.(jpg|jpeg|png|webp|gif)$/i, '')
StripImageExt(f) ==
  IF IsImageFile(f)
  THEN SubSeq(f, 1, Len(f) - Len(CHOOSE e \in ImageExtOf(f) : TRUE) - 1)
  ELSE f

\* path.basename(f)
basename(f) ==
  LET slashes == { i \in 1..Len(f) : f[i] = "/" }
      last == IF slashes = {} THEN 0 ELSE CHOOSE i \in slashes : \A j \in slashes : j <= i
  IN SubSeq(f, last + 1, Len(f))

\* the directory the pictures are under, relative to the working directory
PicturesRel == <<"/","s","r","c","/","p","i","c","t","u","r","e","s","/">>

\* fileRecords: { rel, filename, key } of every image file walkDir finds
\* (files are given by their path under the pictures directory)
FileRecordsOf(files) ==
  LET images == SelectSeq(files, IsImageFile)
  IN [i \in 1..Len(images) |->
        [rel |-> PicturesRel \o images[i],
         filename |-> basename(images[i]),
         key |-> normalize(StripImageExt(basename(images[i])))]]

RECURSIVE SplitAlnum(_)
\* s.split(/[^a-z0-9]+/).filter(Boolean): the maximal runs of a-z0-9 in s
SplitAlnum(s) ==
  IF s = <<>> THEN <<>>
  ELSE IF Head(s) \notin AlnumLower THEN SplitAlnum(Tail(s))
  ELSE LET stops == { i \in 1..Len(s) : s[i] \notin AlnumLower }
           end == IF stops = {} THEN Len(s) + 1
                  ELSE CHOOSE i \in stops : \A j \in stops : i <= j
       IN <<SubSeq(s, 1, end - 1)>> \o SplitAlnum(SubSeq(s, end, Len(s)))

\* the file record the image-assignment script picks for a destination: the
\* first whose key includes the normalized name, else the first whose key
\* includes the first word of the name that any key includes
MatchOf(dest, fileRecords) ==
  LET n == normalize(OrEmpty(dest.name))
      direct == SelectSeq(fileRecords, LAMBDA fr : Includes(fr.key, n))
      parts == SplitAlnum(toLowerCase(OrEmpty(dest.name)))
      byPart == [i \in 1..Len(parts) |->
                   SelectSeq(fileRecords, LAMBDA fr : Includes(fr.key, normalize(parts[i])))]
      hits == { i \in 1..Len(parts) : byPart[i] # <<>> }
  IN IF direct # <<>> THEN Some(direct[1])
     ELSE IF hits = {} THEN None
     ELSE Some(byPart[CHOOSE i \in hits : \A j \in hits : i <= j][1])

RECURSIVE AssignmentsOf(_, _)
\* assignments: { id, name, image_rel } for every destination with a match
AssignmentsOf(dests, fileRecords) ==
  IF dests = <<>> THEN <<>>
  ELSE LET match == MatchOf(Head(dests), fileRecords)
       IN (IF match = None THEN <<>>
           ELSE <<[id |-> Head(dests).id, name |-> Head(dests).name,
                   image_rel |-> match[1].rel]>>)
          \o AssignmentsOf(Tail(dests), fileRecords)

\* .select('*').is('image_url', null)
SelectWithoutImage(rows) == SelectSeq(SelectAll(rows), LAMBDA r : r.image_url = None)

\* .update({ image_url }).eq('id', id) taking effect for the assignments done
UpdateRows(rows, done) ==
  [n \in 1..Len(rows) |->
     LET hits == { k \in 1..Len(done) : done[k].id = rows[n].id }
     IN IF hits = {} THEN rows[n]
        ELSE [rows[n] EXCEPT !.image_url =
                Some(done[CHOOSE k \in hits : \A j \in hits : j <= k].image_rel)]]

\* const batchSize = 50 of assign_local_images.mjs
assignBatchSize == 50

\* the JSON backup { timestamp, assignments } of the image-assignment script
AssignBackupOf(planned) == [kind |-> "json", timestamp |-> "now", assignments |-> planned]

\* the names of the rows the scripts are launched against
ScriptNames == { Some(<<"T"," ","A">>), Some(<<"7">>) }

\* the rows the scripts are launched against
ScriptRows ==
  [id : Ids, name : ScriptNames, description : {None}, province_id : {Some(<<"p">>)},
   image_url : {None, Some(<<"/","u">>)}, location_lat : {None}, location_lng : {None},
   destination_images : {<<>>}]

\* what is under src/pictures: no directory, no file, one picture, or a
\* picture in a folder, a picture and a text file
PictureCases ==
  { None,
    Some(<<>>),
    Some(<< <<"t","a",".","j","p","g">> >>),
    Some(<< <<"d","/","7",".","P","N","G">>, <<"t","a",".","j","p","g">>,
            <<"n",".","t","x","t">> >>) }

\* a script is launched: nothing has run yet
InitScripts ==
  /\ store \in RowLists(ScriptRows)
  /\ program \in ScriptPrograms
  /\ pc = "launch"
  /\ env \in EnvCases
  /\ AUTO_YES \in BOOLEAN
  /\ CSV_OUT \in (IF program = "remove_duplicates" THEN BOOLEAN ELSE {FALSE})
  /\ DRY_RUN \in (IF program = "assign_local_images" THEN BOOLEAN ELSE {FALSE})
  /\ targetId \in (IF program = "delete_destination" THEN Ids \cup {<<>>} ELSE {<<>>})
  /\ pictures \in (IF program = "assign_local_images" THEN PictureCases ELSE {None})
  /\ destinations = <<>>
  /\ duplicates = <<>>
  /\ idsToDelete = <<>>
  /\ toDelete = <<>>
  /\ loopIndex = 0
  /\ backups = <<>>
  /\ requests = <<>>
  /\ answer = None
  /\ dialog = "none"
  /\ before = store
  /\ ran = {}
  /\ chosen = <<>>
  /\ scores = <<>>
  /\ console = <<>>
  /\ exitCode = None
  /\ selects = 0
  /\ assignments = <<>>
  /\ updates = <<>>
  /\ NoMatch
  /\ NoOther

\* remove_duplicates.mjs module top level: the credential check
RemoveDuplicatesTopLevel ==
  /\ program = "remove_duplicates" /\ pc = "launch"
  /\ IF ~HasCredentials(env)
     THEN /\ pc' = "fatal_credentials"
          /\ console' = Append(console, MissingCredentials)
          /\ exitCode' = Some(1)
     ELSE /\ pc' = "start"
          /\ UNCHANGED <<console, exitCode>>
  /\ UNCHANGED <<store, duplicates, idsToDelete, resolverVars, program, AUTO_YES, CSV_OUT,
                 targetId, destinations, toDelete, loopIndex, backups, requests, answer,
                 dialog, before, selects, scriptVars, matchVars, otherVars>>

\* delete_destination.mjs module top level: the credential check, then the --id argument
DeleteDestinationTopLevel ==
  /\ program = "delete_destination" /\ pc = "launch"
  /\ IF ~HasCredentials(env)
     THEN /\ pc' = "fatal_credentials"
          /\ console' = Append(console, MissingCredentials)
          /\ exitCode' = Some(1)
     ELSE IF targetId = <<>>
     THEN /\ pc' = "fatal_usage"
          /\ console' = Append(console,
               Say("error", "Usage: node scripts/delete_destination.mjs --id <destination-id> [--yes]"))
          /\ exitCode' = Some(1)
     ELSE /\ pc' = "start"
          /\ UNCHANGED <<console, exitCode>>
  /\ UNCHANGED <<store, duplicates, idsToDelete, resolverVars, program, AUTO_YES, CSV_OUT,
                 targetId, destinations, toDelete, loopIndex, backups, requests, answer,
                 dialog, before, selects, scriptVars, matchVars, otherVars>>

\* assign_local_images.mjs module top level: the credential check
AssignTopLevel ==
  /\ program = "assign_local_images" /\ pc = "launch"
  /\ IF ~HasCredentials(env)
     THEN /\ pc' = "fatal_credentials"
          /\ console' = Append(console, MissingCredentials)
          /\ exitCode' = Some(1)
     ELSE /\ pc' = "start"
          /\ UNCHANGED <<console, exitCode>>
  /\ UNCHANGED <<store, duplicates, idsToDelete, resolverVars, program, AUTO_YES, CSV_OUT,
                 targetId, destinations, toDelete, loopIndex, backups, requests, answer,
                 dialog, before, selects, scriptVars, matchVars, otherVars>>

\* how the store answers one update request: the row updated, no error and
\* nothing updated (a row-level policy hides the row), or an error
UpdateOutcomes ==
  { [error |-> None, applied |-> TRUE], [error |-> None, applied |-> FALSE] }
  \cup { [error |-> Some(e), applied |-> FALSE] : e \in StoreErrors }

\* a script that looks at --yes before --dry-run
AfterSummaryYesFirst(dryRun, autoYes) ==
  IF autoYes THEN "update" ELSE IF dryRun THEN "dry_run" ELSE "prompt"

\* assign_local_images.mjs main after the summary: if (DRY_RUN) exit(0), then
\* if (!AUTO_YES) the prompt, else the updates
AfterSummary(dryRun, autoYes) ==
  IF dryRun THEN "dry_run" ELSE IF autoYes THEN "update" ELSE "prompt"

\* assign_local_images.mjs main, up to the prompt: the pictures are listed, the
\* destinations without image_url are loaded and matched, the backup is written
\* (the sample lines of the summary are left out of the console)
AssignFetch ==
  /\ program = "assign_local_images" /\ pc = "start"
  /\ \E isError \in BOOLEAN, error \in StoreErrors :
       LET fileRecords == IF pictures = None THEN <<>> ELSE FileRecordsOf(pictures[1])
           found == Msg("log", "Found image files under src/pictures",
                        <<>>, None, Some(Len(fileRecords)))
           loaded == SelectWithoutImage(store)
           planned == AssignmentsOf(loaded, fileRecords)
       IN IF pictures = None
          THEN /\ pc' = "fatal_pictures"
               /\ console' = Append(console, Say("error", "Pictures directory not found at"))
               /\ exitCode' = Some(1)
               /\ UNCHANGED <<destinations, assignments, backups, selects>>
          ELSE IF Len(fileRecords) = 0
          THEN /\ pc' = "nothing"
               /\ console' = Append(console, Say("log", "No image files found under src/pictures"))
               /\ exitCode' = Some(0)
               /\ UNCHANGED <<destinations, assignments, backups, selects>>
          ELSE /\ selects' = selects + 1
               /\ IF isError
                  THEN /\ pc' = "failed_fetch"
                       /\ console' = console \o <<found,
                            Msg("error", "Error fetching destinations:",
                                <<>>, Some(error.message), None)>>
                       /\ exitCode' = Some(1)
                       /\ UNCHANGED <<destinations, assignments, backups>>
                  ELSE IF Len(loaded) = 0
                  THEN /\ pc' = "nothing"
                       /\ console' = console \o <<found,
                            Say("log", "No destinations without image_url found.")>>
                       /\ exitCode' = Some(0)
                       /\ UNCHANGED <<destinations, assignments, backups>>
                  ELSE IF Len(planned) = 0
                  THEN /\ pc' = "nothing"
                       /\ destinations' = loaded
                       /\ console' = console \o <<found,
                            Say("log", "No suitable local images found to assign.")>>
                       /\ exitCode' = Some(0)
                       /\ UNCHANGED <<assignments, backups>>
                  ELSE /\ destinations' = loaded
                       /\ assignments' = planned
                       /\ backups' = Append(backups, AssignBackupOf(planned))
                       /\ console' = console
                            \o <<found, Say("log", "Backup written to"),
                                 Msg("log", "Will assign images to destinations (sample):",
                                     <<>>, None, Some(Len(planned)))>>
                            \o (IF AfterSummary(DRY_RUN, AUTO_YES) = "dry_run"
                                THEN <<Say("log", "--dry-run provided, exiting without making changes.")>>
                                ELSE <<>>)
                       /\ exitCode' = IF AfterSummary(DRY_RUN, AUTO_YES) = "dry_run" THEN Some(0) ELSE exitCode
                       /\ pc' = AfterSummary(DRY_RUN, AUTO_YES)
  /\ UNCHANGED <<store, duplicates, idsToDelete, resolverVars, program, AUTO_YES, CSV_OUT,
                 targetId, toDelete, loopIndex, requests, answer, dialog, before>>
  /\ UNCHANGED <<env, DRY_RUN, pictures, updates, matchVars, otherVars>>

\* assign_local_images.mjs main: a line arrives on the standard input
AssignAnswer ==
  /\ program = "assign_local_images" /\ pc = "prompt"
  /\ \E input \in Answers :
       /\ answer' = Some(input)
       /\ pc' = IF Affirmative(input) THEN "update" ELSE "aborted"
       /\ console' = IF Affirmative(input) THEN console
                     ELSE Append(console, Say("log", "Aborted by user. No changes made."))
       /\ exitCode' = IF Affirmative(input) THEN exitCode ELSE Some(0)
  /\ UNCHANGED <<store, duplicates, idsToDelete, resolverVars, program, AUTO_YES, CSV_OUT,
                 targetId, destinations, toDelete, loopIndex, backups, requests, dialog, before>>
  /\ UNCHANGED <<selects, scriptVars, matchVars, otherVars>>

\* the standard input ends before any line arrives
AssignNoAnswer ==
  /\ program = "assign_local_images" /\ pc = "prompt"
  /\ pc' = "unanswered"
  /\ exitCode' = Some(0)
  /\ UNCHANGED <<store, duplicates, idsToDelete, resolverVars, program, AUTO_YES, CSV_OUT,
                 targetId, destinations, toDelete, loopIndex, backups, requests, answer,
                 dialog, before>>
  /\ UNCHANGED <<console, selects, scriptVars, matchVars, otherVars>>

\* assign_local_images.mjs main: one turn of the batch loop, one update request
\* per assignment of the batch (the batch number is left out of the console)
AssignUpdateBatch ==
  /\ program = "assign_local_images" /\ pc = "update"
  /\ loopIndex < Len(assignments)
  /\ LET batch == Slice(assignments, loopIndex, assignBatchSize)
     IN \E results \in [1..Len(batch) -> UpdateOutcomes] :
          LET failed == SelectSeq([k \in 1..Len(batch) |-> results[k]],
                                  LAMBDA r : r.error # None)
              done == SelectSeq([k \in 1..Len(batch) |->
                                   [id |-> batch[k].id, image_rel |-> batch[k].image_rel,
                                    applied |-> results[k].applied]],
                                LAMBDA d : d.applied)
          IN /\ updates' = updates \o [k \in 1..Len(batch) |->
                                         [id |-> batch[k].id, image_url |-> batch[k].image_rel,
                                          error |-> results[k].error]]
             /\ store' = UpdateRows(store, done)
             /\ loopIndex' = loopIndex + assignBatchSize
             /\ pc' = IF loopIndex' < Len(assignments) THEN "update" ELSE "done"
             /\ console' = console
                  \o [k \in 1..Len(failed) |->
                        Msg("error", "Update error:", <<>>, Some(failed[k].error[1].message), None)]
                  \o <<Msg("log", "Updated batch: rows", <<>>, None, Some(Len(batch)))>>
                  \o (IF loopIndex' < Len(assignments) THEN <<>>
                      ELSE <<Msg("log", "Assigned local images to destinations.",
                                 <<>>, None, Some(Len(assignments)))>>)
             /\ exitCode' = IF loopIndex' < Len(assignments) THEN exitCode ELSE Some(0)
  /\ UNCHANGED <<duplicates, idsToDelete, resolverVars, program, AUTO_YES, CSV_OUT, targetId,
                 destinations, toDelete, backups, requests, answer, dialog, before>>
  /\ UNCHANGED <<selects, env, DRY_RUN, pictures, assignments, matchVars, otherVars>>

NextScripts ==
  \/ RemoveDuplicatesTopLevel \/ DeleteDestinationTopLevel \/ AssignTopLevel
  \/ ScriptFetch \/ ScriptAnswer \/ ScriptNoAnswer \/ ScriptDeleteBatch
  \/ DeleteLookup \/ DeleteAnswer \/ DeleteNoAnswer \/ DeleteRequest \/ DeleteVerify
  \/ AssignFetch \/ AssignAnswer \/ AssignNoAnswer \/ AssignUpdateBatch

SpecScripts == InitScripts /\ [][NextScripts]_vars

\* ---------------------------------------------------------------------------
\* The local picture matcher and the fallback texts of the pages
\* (a character outside ASCII is written by its code point, "U+00E9")

\* String.prototype.normalize('NFKD') of one character
DecomposeChar(c) ==
  IF c = "U+00E9" THEN <<"e", "U+0301">>
  ELSE IF c = "U+00C9" THEN <<"E", "U+0301">>
  ELSE <<c>>

RECURSIVE NFKD(_)
\* String.prototype.normalize('NFKD')
NFKD(s) == IF s = <<>> THEN <<>> ELSE DecomposeChar(Head(s)) \o NFKD(Tail(s))

\* the apostrophes of /['\u2019\u0060\u2019]/g
Apostrophes == { "'", "U+2019", "U+0060" }

\* the combining marks of /[\u0300-\u036f]/g that decompositions here produce
CombiningMarks == { "U+0301" }

\* normalizeForKey: NFKD, drop apostrophes, drop combining marks, lower-case,
\* drop everything but a-z0-9
normalizeForKey(s) ==
  StripNonAlnum(toLowerCase(
    SelectSeq(SelectSeq(NFKD(s), LAMBDA c : c \notin Apostrophes),
              LAMBDA c : c \notin CombiningMarks)))

\* filename.replace(/\.[^/.]+$/, ''): the name without its last extension
nameWithoutExt(filename) ==
  LET dots == { i \in 1..Len(filename) : filename[i] = "." }
      last == IF dots = {} THEN 0 ELSE CHOOSE i \in dots : \A j \in dots : j <= i
  IN IF last = 0 \/ last = Len(filename) THEN filename ELSE SubSeq(filename, 1, last - 1)

PicturesRoot == <<"/","s","r","c","/","p","i","c","t","u","r","e","s","/">>

AssetsRoot == <<"/","s","r","c","/","a","s","s","e","t","s","/","d","e","s","t","i","n","a","t","i","o","n","s","/">>

\* s.startsWith(prefix)
StartsWith(s, prefix) == Len(s) >= Len(prefix) /\ SubSeq(s, 1, Len(prefix)) = prefix

\* the extension after the last dot of a path, as written
ExtOf(path) ==
  LET dots == { i \in 1..Len(path) : path[i] = "." }
      last == IF dots = {} THEN 0 ELSE CHOOSE i \in dots : \A j \in dots : j <= i
  IN IF last = 0 THEN <<>> ELSE SubSeq(path, last + 1, Len(path))

\* the glob '/src/pictures/**/*.{jpg,jpeg,png,webp,gif}' (upper = the
\* upper-case extensions {JPG,JPEG,PNG,WEBP,GIF})
InPicturesGlob(path, upper) ==
  /\ StartsWith(path, PicturesRoot)
  /\ \E e \in ImageExts :
       ExtOf(path) = (IF upper THEN [i \in 1..Len(e) |-> UpperChars[CHOOSE k \in 1..26 : LowerChars[k] = e[i]]]
                      ELSE e)

\* the glob '/src/assets/destinations/*.{jpg,jpeg,png,webp,gif}'
InAssetsGlob(path, upper) ==
  /\ StartsWith(path, AssetsRoot)
  /\ \A i \in (Len(AssetsRoot) + 1)..Len(path) : path[i] # "/"
  /\ \E e \in ImageExts :
       ExtOf(path) = (IF upper THEN [i \in 1..Len(e) |-> UpperChars[CHOOSE k \in 1..26 : LowerChars[k] = e[i]]]
                      ELSE e)

\* _localImages of the detail page: the four globs spread one after the other
DetailLocalImages(files) ==
  SelectSeq(files, LAMBDA f : InPicturesGlob(f, FALSE))
  \o SelectSeq(files, LAMBDA f : InPicturesGlob(f, TRUE))
  \o SelectSeq(files, LAMBDA f : InAssetsGlob(f, FALSE))
  \o SelectSeq(files, LAMBDA f : InAssetsGlob(f, TRUE))

\* _localImages of the list page: the two lower-case globs
ListLocalImages(files) ==
  SelectSeq(files, LAMBDA f : InPicturesGlob(f, FALSE))
  \o SelectSeq(files, LAMBDA f : InAssetsGlob(f, FALSE))

\* _localImages of the admin page: the lower-case pictures glob
AdminLocalImages(files) == SelectSeq(files, LAMBDA f : InPicturesGlob(f, FALSE))

\* the URL the bundler gives a picture (in development, its path)
UrlOf(path) == path

\* picPattern = /\/src\/pictures\/|\\src\\pictures\\/i
picPattern(path) ==
  \/ Includes(toLowerCase(path), PicturesRoot)
  \/ Includes(toLowerCase(path), <<"\\","s","r","c","\\","p","i","c","t","u","r","e","s","\\">>)

\* a comparator that puts the pictures root last
PicturesLast(a, b) ==
  IF picPattern(a.path) = picPattern(b.path) THEN 0
  ELSE IF picPattern(a.path) THEN 1 ELSE -1

\* the comparator of localImageEntries.sort: pictures root first
PicturesFirst(a, b) ==
  IF picPattern(a.path) = picPattern(b.path) THEN 0
  ELSE IF picPattern(a.path) THEN -1 ELSE 1

\* localImageEntries of the detail and list pages: one entry per picture, sorted
localImageEntries(images) ==
  LET entries == [i \in 1..Len(images) |->
                    [path |-> images[i], url |-> UrlOf(images[i]),
                     filename |-> basename(images[i]),
                     key |-> normalizeForKey(nameWithoutExt(basename(images[i])))]]
  IN SortBy(entries, [i \in 1..Len(entries) |-> [j \in 1..Len(entries) |->
                        PicturesFirst(entries[i], entries[j])]])

\* localImageEntries of the admin page: the key keeps the extension, no sort
AdminLocalImageEntries(images) ==
  [i \in 1..Len(images) |->
     [path |-> images[i], url |-> UrlOf(images[i]), filename |-> basename(images[i]),
      key |-> StripNonAlnum(toLowerCase(basename(images[i])))]]

\* entries.map((e) => e.url)
UrlsOf(entries) == [i \in 1..Len(entries) |-> entries[i].url]

\* a JavaScript value a name or a text to display can be: a text, null, undefined or a function object
TextValue(v) == [type |-> "string", value |-> v]

NullValue == [type |-> "null", value |-> <<>>]

UndefinedValue == [type |-> "undefined", value |-> <<>>]

FunctionValue == [type |-> "function", value |-> <<>>]

\* JavaScript truthiness of such a value
Truthy(v) == v.type = "function" \/ (v.type = "string" /\ v.value # <<>>)

\* a || b
OrValue(a, b) == IF Truthy(a) THEN a ELSE b

\* String(v) of such a value: the text itself, 'null' or 'undefined'
ToStringValue(v) ==
  IF v.type = "string" THEN v.value
  ELSE IF v.type = "null" THEN <<"n","u","l","l">>
  ELSE <<"u","n","d","e","f","i","n","e","d">>

\* the name as the lookups receive it when nothing stands in for a missing one
Unguarded(v) == v

\* name || '' and String(s || ''): the empty text stands in for a falsy name
StringOrEmpty(v) == IF Truthy(v) THEN v ELSE TextValue(<<>>)

\* calling normalize, toLowerCase or split on the value raises a TypeError when
\* it is null or undefined
Raises(v) == v.type \in { "null", "undefined" }

\* findLocalImages of the detail page
DetailFindLocalImages(entries, name) ==
  LET key == normalizeForKey(StringOrEmpty(name).value)
      tokens == SplitAlnum(toLowerCase(StringOrEmpty(name).value))
  IN UrlsOf(SelectSeq(entries, LAMBDA e :
       IF e.key = <<>> THEN FALSE
       ELSE IF Includes(e.key, key) \/ Includes(key, e.key) THEN TRUE
       ELSE \E t \in 1..Len(tokens) :
              \/ Includes(toLowerCase(e.filename), tokens[t])
              \/ Includes(toLowerCase(e.path), tokens[t])))

\* findLocalImages of the list page
ListFindLocalImages(entries, name) ==
  UrlsOf(SelectSeq(entries, LAMBDA e : Includes(e.key, normalizeForKey(StringOrEmpty(name).value))))

\* findLocalImages of the admin page
AdminFindLocalImages(entries, name) ==
  UrlsOf(SelectSeq(entries, LAMBDA e : Includes(e.key, StripNonAlnum(toLowerCase(StringOrEmpty(name).value)))))

\* /aluvihare/.test(key) || /aluviharetemple/.test(key) || /aluvihare\stemple/.test(key)
IsAluvihare(key) ==
  \/ Includes(key, <<"a","l","u","v","i","h","a","r","e">>)
  \/ Includes(key, <<"a","l","u","v","i","h","a","r","e","t","e","m","p","l","e">>)
  \/ \E w \in WhiteChars : Includes(key, <<"a","l","u","v","i","h","a","r","e">> \o <<w>> \o <<"t","e","m","p","l","e">>)

\* /independence/.test(key) || /independencesquare/.test(key) || /independence\s*square/.test(key)
IsIndependence(key) ==
  \/ Includes(key, <<"i","n","d","e","p","e","n","d","e","n","c","e">>)
  \/ Includes(key, <<"i","n","d","e","p","e","n","d","e","n","c","e","s","q","u","a","r","e">>)

\* /horton plains|world's end|worlds end/i.test(name)
IsHortonPlains(name) ==
  \/ Includes(toLowerCase(name), <<"h","o","r","t","o","n"," ","p","l","a","i","n","s">>)
  \/ Includes(toLowerCase(name), <<"w","o","r","l","d","'","s"," ","e","n","d">>)
  \/ Includes(toLowerCase(name), <<"w","o","r","l","d","s"," ","e","n","d">>)

\* the Horton Plains branch: the first entry with /horton ?plains/i in its
\* filename and /pictures/i in its path
HortonPlainsPicture(entries) ==
  SelectSeq(entries, LAMBDA e :
    /\ \/ Includes(toLowerCase(e.filename), <<"h","o","r","t","o","n","p","l","a","i","n","s">>)
       \/ Includes(toLowerCase(e.filename), <<"h","o","r","t","o","n"," ","p","l","a","i","n","s">>)
    /\ Includes(toLowerCase(e.path), <<"p","i","c","t","u","r","e","s">>))

\* the first entry whose lower-cased filename includes the word, as url or null
FirstWithFilename(entries, word) ==
  LET found == SelectSeq(entries, LAMBDA e : Includes(toLowerCase(e.filename), word))
  IN IF found = <<>> THEN None ELSE Some(found[1].url)

\* findManualOverride of the detail page
DetailFindManualOverride(entries, name) ==
  LET key == normalizeForKey(StringOrEmpty(name).value)
  IN IF IsAluvihare(key) THEN FirstWithFilename(entries, <<"a","l","u","v","i","h","a","r","e">>)
     ELSE IF IsIndependence(key) THEN FirstWithFilename(entries, <<"i","n","d","e","p","e","n","d","e","n","c","e">>)
     ELSE IF IsHortonPlains(ToStringValue(name)) /\ HortonPlainsPicture(entries) # <<>>
     THEN Some(HortonPlainsPicture(entries)[1].url)
     ELSE None

\* findManualOverride of the list page
ListFindManualOverride(entries, name) ==
  LET key == normalizeForKey(StringOrEmpty(name).value)
  IN IF IsAluvihare(key) THEN FirstWithFilename(entries, <<"a","l","u","v","i","h","a","r","e">>)
     ELSE IF IsHortonPlains(ToStringValue(name)) /\ HortonPlainsPicture(entries) # <<>>
     THEN Some(HortonPlainsPicture(entries)[1].url)
     ELSE None

\* provinceFallback of the detail page: the first entry whose path includes the
\* province name or whose key includes its normalized name
provinceFallback(entries, provinceName) ==
  LET found == SelectSeq(entries, LAMBDA e :
                 \/ Includes(toLowerCase(e.path), toLowerCase(provinceName))
                 \/ Includes(e.key, normalizeForKey(provinceName)))
  IN IF found = <<>> THEN None ELSE Some(found[1].url)

\* findProvinceImage of the list page: null without a province name
findProvinceImage(entries, provinceName) ==
  LET found == SelectSeq(entries, LAMBDA e :
                 \/ Includes(toLowerCase(e.path), toLowerCase(provinceName))
                 \/ Includes(e.key, normalizeForKey(provinceName)))
  IN IF provinceName = <<>> \/ found = <<>> THEN None ELSE Some(found[1].url)

\* a || b of two values that are null or a url
OrUrl(a, b) == IF TruthyStr(a) THEN a ELSE b

\* destination_images.find((img) => img.is_primary)
PrimaryOf(images) == SelectSeq(images, LAMBDA img : img.is_primary)

\* primaryImageUrl of the detail page:
\* primaryImage ? primaryImage.image_url : (localFallbacks[0] || manual) || provinceFallback || null
DetailPrimaryImageUrl(entries, d) ==
  LET localFallbacks == DetailFindLocalImages(entries, d.name)
      manual == DetailFindManualOverride(entries, d.name)
      province == provinceFallback(entries, d.province)
  IN IF PrimaryOf(d.destination_images) # <<>>
     THEN Some(PrimaryOf(d.destination_images)[1].image_url)
     ELSE OrUrl(OrUrl(IF localFallbacks = <<>> THEN None ELSE Some(localFallbacks[1]),
                      manual),
                province)

\* the card image of the list page:
\* dbFirst || manual || findLocalImages(name)[0] || findProvinceImage(province)
ListCardImage(entries, d) ==
  LET dbPrimary == IF PrimaryOf(d.destination_images) = <<>> THEN None
                   ELSE Some(PrimaryOf(d.destination_images)[1].image_url)
      dbFirst == OrUrl(dbPrimary, IF d.destination_images = <<>> THEN None
                                  ELSE Some(d.destination_images[1].image_url))
      manual == ListFindManualOverride(entries, d.name)
      locals == ListFindLocalImages(entries, d.name)
  IN OrUrl(OrUrl(OrUrl(dbFirst, manual), IF locals = <<>> THEN None ELSE Some(locals[1])),
           findProvinceImage(entries, d.province))

\* the keys of manualTextOverrides of the detail page
DetailManualTextKeys ==
  { <<"k","e","g","a","l","l","e","p","i","n","n","a","w","a","l","a","e","l","e","p","h","a","n","t","h","o","r","p","h","a","n","a","g","e">>,
    <<"k","e","g","a","l","l","e","p","i","n","n","a","w","e","l","a","e","l","e","p","h","a","n","t","h","o","r","p","h","a","n","a","g","e">>,
    <<"p","i","n","n","a","w","e","l","a","e","l","e","p","h","a","n","t","h","o","r","p","h","a","n","a","g","e">>,
    <<"p","i","n","n","a","w","e","l","a">>,
    <<"p","i","n","n","a","w","a","l","a","e","l","e","p","h","a","n","t","h","o","r","p","h","a","n","a","g","e">> }

\* manualTextOverrides[key] of the detail page (texts are cut after their
\* opening words)
DetailManualText(key) ==
  IF key \in DetailManualTextKeys THEN TextValue(<<"T","h","e"," ","P","i","n","n","a","w","a","l","a"," ","E","l","e","p","h","a","n","t"," ","O","r","p","h","a","n","a","g","e">>)
  ELSE IF key \in InheritedKeys THEN FunctionValue
  ELSE UndefinedValue

\* manualTextOverrides[key] of the list page
ListManualText(key) ==
  IF key = <<"d","i","y","a","l","u","m","a","f","a","l","l","s">> THEN TextValue(<<"D","i","y","a","l","u","m","a"," ","F","a","l","l","s"," ","i","s">>)
  ELSE IF key \in InheritedKeys THEN FunctionValue
  ELSE UndefinedValue

\* fallbackDescriptions of the detail page, in table order: the entries whose
\* pattern a name drawn here can match, after the first entry of the table; the
\* Pinnawala text opens as the manual text does and goes on where that one ends
fallbackDescriptions ==
  << [pattern |-> { <<"g","a","l","l","e"," ","f","a","c","e">> }, text |-> <<"G","a","l","l","e"," ","F","a","c","e"," ","G","r","e","e","n"," ","i","s">>],
     [pattern |-> { <<"d","e","h","i","w","a","l","a"," ","z","o","o">>, <<"z","o","o">> }, text |-> <<"D","e","h","i","w","a","l","a"," ","Z","o","o">>],
     [pattern |-> { <<"a","l","u","v","i","h","a","r","e">>, <<"a","l","u","v","i","h","a","r","e"," ","r","o","c","k"," ","t","e","m","p","l","e">> }, text |-> <<"A","l","u","v","i","h","a","r","e"," ","R","o","c","k"," ","T","e","m","p","l","e">>],
     [pattern |-> { <<"p","i","n","n","a","w","a","l","a">>, <<"p","i","n","n","a","w","a","l","a"," ","e","l","e","p","h","a","n","t"," ","o","r","p","h","a","n","a","g","e">> },
      text |-> <<"T","h","e"," ","P","i","n","n","a","w","a","l","a"," ","E","l","e","p","h","a","n","t"," ","O","r","p","h","a","n","a","g","e"," ","a","n","d"," ","p","r","o","v","i","d","e","s"," ","e","d","u","c","a","t","i","o","n","a","l"," ","v","i","s","i","t","s">>],
     [pattern |-> { <<"d","i","y","a","l","u","m","a">>, <<"d","i","y","a","l","u","m","a"," ","f","a","l","l","s">>, <<"d","i","y","a","l","u","m","a"," ","w","a","t","e","r","f","a","l","l">> },
      text |-> <<"D","i","y","a","l","u","m","a"," ","F","a","l","l","s">>] >>

\* fallbackSnippets of the list page, in table order: the entries whose
\* pattern a name drawn here can match, after the first entry of the table
fallbackSnippets ==
  << [pattern |-> { <<"g","a","l","l","e"," ","f","a","c","e">> }, text |-> <<"G","a","l","l","e"," ","F","a","c","e"," ","G","r","e","e","n">>],
     [pattern |-> { <<"d","e","h","i","w","a","l","a"," ","z","o","o">>, <<"z","o","o">> }, text |-> <<"D","e","h","i","w","a","l","a"," ","Z","o","o">>],
     [pattern |-> { <<"a","l","u","v","i","h","a","r","e">>, <<"a","l","u","v","i","h","a","r","e"," ","r","o","c","k"," ","t","e","m","p","l","e">> }, text |-> <<"A","l","u","v","i","h","a","r","e"," ","R","o","c","k"," ","T","e","m","p","l","e">>] >>

\* the entries whose pattern matches, the last of the table first
FindPatternLastFirst(table, name) ==
  LET found == SelectSeq(table, LAMBDA f : \E alt \in f.pattern : Includes(toLowerCase(name), alt))
  IN [i \in 1..Len(found) |-> found[Len(found) + 1 - i]]

\* table.find((f) => f.pattern.test(name)), the patterns being alternations of
\* literal words with the i flag
FindPattern(table, name) ==
  SelectSeq(table, LAMBDA f : \E alt \in f.pattern : Includes(toLowerCase(name), alt))

\* getFallback of the detail page
getFallback(name) ==
  LET key == normalizeForKey(StringOrEmpty(name).value)
      found == FindPattern(fallbackDescriptions, ToStringValue(name))
  IN IF Truthy(DetailManualText(key)) THEN DetailManualText(key)
     ELSE IF found # <<>> THEN TextValue(found[1].text)
     ELSE NullValue

\* the sentence getSnippet generates
GeneratedSnippet(name, provinceName) ==
  <<"E","x","p","l","o","r","e"," ">> \o name
  \o (IF TruthyStr(provinceName) THEN <<" ","i","n"," ">> \o provinceName[1] ELSE <<>>)
  \o <<"."," ","D","i","s","c","o","v","e","r"," ","h","i","g","h","l","i","g","h","t","s",","," ","l","o","c","a","l"," ","c","u","l","t","u","r","e",","," ","a","n","d"," ","v","i","s","i","t","o","r"," ","t","i","p","s"," ","f","o","r"," ","t","h","i","s"," ","d","e","s","t","i","n","a","t","i","o","n",".">>

\* getSnippet of the list page; provinceName is None when the argument is not given
getSnippet(name, provinceName) ==
  LET key == normalizeForKey(StringOrEmpty(name).value)
      found == FindPattern(fallbackSnippets, ToStringValue(name))
      foundProv == IF TruthyStr(provinceName)
                   THEN FindPattern(fallbackSnippets, provinceName[1]) ELSE <<>>
  IN IF Truthy(ListManualText(key)) THEN ListManualText(key)
     ELSE IF found # <<>> THEN TextValue(found[1].text)
     ELSE IF foundProv # <<>> THEN TextValue(foundProv[1].text)
     ELSE TextValue(GeneratedSnippet(ToStringValue(name), provinceName))

\* a description column as a value: null or the text
DescriptionValue(o) == IF o = None THEN NullValue ELSE TextValue(o[1])

\* displayDescription of the detail page
displayDescription(d) == OrValue(DescriptionValue(d.description), getFallback(d.name))

\* snippet of a card of the list page: getSnippet is called with the name only
CardSnippet(d) == OrValue(DescriptionValue(d.description), getSnippet(d.name, None))

\* what React puts on the page for {value}: a text as it is, nothing for null,
\* undefined or a function
Rendered(v) == IF v.type = "string" THEN v.value ELSE <<>>

\* the largest number of picture files in the project
MaxFiles == 3

\* the picture files the project can hold
FilePaths ==
  { <<"/","s","r","c","/","p","i","c","t","u","r","e","s","/","a",".","j","p","g">>,
    <<"/","s","r","c","/","p","i","c","t","u","r","e","s","/","x","/","a","l","u","v","i","h","a","r","e",".","p","n","g">>,
    <<"/","s","r","c","/","a","s","s","e","t","s","/","d","e","s","t","i","n","a","t","i","o","n","s","/","z","o","o",".","j","p","g">>,
    <<"/","s","r","c","/","p","i","c","t","u","r","e","s","/","!",".","g","i","f">>,
    <<"/","s","r","c","/","p","i","c","t","u","r","e","s","/","Z","o","o",".","J","P","G">>,
    <<"/","s","r","c","/","p","i","c","t","u","r","e","s","/","z","o","o","2",".","p","n","g">> }

\* the listings of the picture files: any files, in any order
FileListings ==
  UNION { { f \in [1..n -> FilePaths] : \A i, j \in 1..n : i # j => f[i] # f[j] } :
          n \in 0..MaxFiles }

\* the names of the destinations the pages render
EntityNames ==
  { <<"Z","o","o">>, <<"A","b">>, <<"A","l","u","v","i","h","a","r","e">>, <<"D","i","y","a","l","u","m","a"," ","F","a","l","l","s">>, <<"P","i","n","n","a","w","e","l","a">>, <<"c","o","n","s","t","r","u","c","t","o","r">>, <<"!">> }

\* the destinations the pages render: description null, empty or a text; no
\* image row or one that is not primary; provinces.name from the join
Entities ==
  [name : { TextValue(n) : n \in EntityNames },
   description : { None, Some(<<>>), Some(<<"d">>) },
   province : { <<"U","v","a">> },
   destination_images : { <<>>, << [image_url |-> <<"d","b">>, is_primary |-> FALSE] >> }]

Pages == { "detail", "list", "admin" }

\* the pictures are on disk and a destination is loaded; no page has rendered
InitMatch ==
  /\ localImages \in FileListings
  /\ entity \in { Some(d) : d \in Entities }
  /\ shown = <<>>
  /\ store = <<>>
  /\ ran = {}
  /\ duplicates = <<>>
  /\ idsToDelete = <<>>
  /\ chosen = <<>>
  /\ scores = <<>>
  /\ NoProgram
  /\ NoOther

\* the value of shown after a page has rendered
Showing(page, view) ==
  [q \in DOMAIN shown \cup {page} |-> IF q = page THEN view ELSE shown[q]]

\* DestinationDetail renders the destination
DetailRender ==
  /\ "detail" \notin DOMAIN shown
  /\ LET entries == localImageEntries(DetailLocalImages(localImages))
         d == entity[1]
     IN shown' = Showing("detail",
          [entries |-> entries,
           locals |-> DetailFindLocalImages(entries, d.name),
           manual |-> DetailFindManualOverride(entries, d.name),
           image |-> DetailPrimaryImageUrl(entries, d),
           text |-> displayDescription(d),
           fallback |-> getFallback(d.name),
           raised |-> Raises(StringOrEmpty(d.name))])
  /\ UNCHANGED <<store, duplicates, idsToDelete, resolverVars, runVars, localImages, entity, otherVars>>

\* Destinations renders the card of the destination
ListRender ==
  /\ "list" \notin DOMAIN shown
  /\ LET entries == localImageEntries(ListLocalImages(localImages))
         d == entity[1]
     IN shown' = Showing("list",
          [entries |-> entries,
           locals |-> ListFindLocalImages(entries, d.name),
           manual |-> ListFindManualOverride(entries, d.name),
           image |-> ListCardImage(entries, d),
           text |-> CardSnippet(d),
           fallback |-> getSnippet(d.name, None),
           raised |-> Raises(StringOrEmpty(d.name))])
  /\ UNCHANGED <<store, duplicates, idsToDelete, resolverVars, runVars, localImages, entity, otherVars>>

\* AdminDashboard renders the row of the destination: avatar and local pictures
AdminRender ==
  /\ "admin" \notin DOMAIN shown
  /\ LET entries == AdminLocalImageEntries(AdminLocalImages(localImages))
         d == entity[1]
         locals == AdminFindLocalImages(entries, d.name)
     IN shown' = Showing("admin",
          [entries |-> entries,
           locals |-> locals,
           manual |-> None,
           image |-> IF locals = <<>> THEN None ELSE Some(locals[1]),
           text |-> UndefinedValue,
           fallback |-> UndefinedValue,
           raised |-> Raises(StringOrEmpty(d.name))])
  /\ UNCHANGED <<store, duplicates, idsToDelete, resolverVars, runVars, localImages, entity, otherVars>>

NextMatch == DetailRender \/ ListRender \/ AdminRender

SpecMatch == InitMatch /\ [][NextMatch]_vars

\* ---------------------------------------------------------------------------
\* The lookups by name, given names of every kind

\* names the lookups are given: one with a manual text and a matching pattern,
\* one two patterns match, one with a manual text on the list page, one nothing
\* matches, the name of an inherited property, the empty text, null and undefined
LookupNames ==
  { TextValue(n) : n \in { <<"P","i","n","n","a","w","a","l","a"," ","E","l","e","p","h","a","n","t","h"," ","O","r","p","h","a","n","a","g","e">>,
                           <<"G","a","l","l","e"," ","F","a","c","e"," ","Z","o","o">>,
                           <<"D","i","y","a","l","u","m","a"," ","F","a","l","l","s">>,
                           <<"A","b">>,
                           <<"c","o","n","s","t","r","u","c","t","o","r">>,
                           <<>> } }
  \cup { NullValue, UndefinedValue }

\* the destinations the lookups are given
LookupEntities ==
  [name : LookupNames,
   description : { None, Some(<<"d">>) },
   province : { <<"U","v","a">> },
   destination_images : { <<>> }]

\* at most one picture is on disk and a destination is loaded
InitLookup ==
  /\ localImages \in { f \in FileListings : Len(f) <= 1 }
  /\ entity \in { Some(d) : d \in LookupEntities }
  /\ shown = <<>>
  /\ store = <<>>
  /\ ran = {}
  /\ duplicates = <<>>
  /\ idsToDelete = <<>>
  /\ chosen = <<>>
  /\ scores = <<>>
  /\ NoProgram
  /\ NoOther

SpecLookup == InitLookup /\ [][NextMatch]_vars

\* ---------------------------------------------------------------------------
\* Runs of the duplicate removal that overlap, and another client of the store

\* the number of runs that overlap
MaxRuns == 2

\* remove_duplicates.mjs and the 'Remove Duplicates' handler of the admin page
RunKinds == { "script", "admin" }

\* two rows of one key, their descriptions of any kind
OverlapStores ==
  { <<r1, r2>> : r1 \in { r \in ResolveRows : r.id = <<"a">> /\ r.name # Some(<<"7">>) },
                 r2 \in { r \in ResolveRows : r.id = <<"a","1">> /\ r.name # Some(<<"7">>) } }

\* no run has loaded the table yet; the other client has not written
InitOverlap ==
  /\ store \in OverlapStores
  /\ runs \in { [r \in 1..(MaxRuns + 1) |->
                  [kind |-> IF r <= MaxRuns THEN k[r] ELSE "client", pc |-> "start",
                   snapshot |-> <<>>, ids |-> <<>>]] : k \in [1..MaxRuns -> RunKinds] }
  /\ thrown = {}
  /\ original = <<>>
  /\ variant = <<>>
  /\ keyed = <<>>
  /\ session = None
  /\ checks = <<>>
  /\ isAdmin = FALSE
  /\ loading = FALSE
  /\ mounted = FALSE
  /\ ran = {}
  /\ duplicates = <<>>
  /\ idsToDelete = <<>>
  /\ chosen = <<>>
  /\ scores = <<>>
  /\ NoRun

\* a run loads the table and decides what to delete: the script from select('*')
\* at its start, the handler from the destinations the page has loaded
RunSnapshot ==
  \E r \in 1..MaxRuns :
    /\ runs[r].pc = "start"
    /\ LET snapshot == IF runs[r].kind = "script" THEN SelectAll(store)
                       ELSE SelectAdminColumns(store)
           ids == IF runs[r].kind = "script" THEN FlatIds(ScriptPlan(snapshot))
                  ELSE AdminIdsToDelete(snapshot)
       IN runs' = [runs EXCEPT ![r] = [kind |-> runs[r].kind,
                                       pc |-> IF Len(ids) = 0 THEN "done" ELSE "delete",
                                       snapshot |-> snapshot, ids |-> ids]]
    /\ UNCHANGED <<store, duplicates, idsToDelete, resolverVars, runVars, matchVars,
                   thrown, keyVars, adminVars>>

\* a run sends its delete().in('id', ids): the store deletes the rows of these
\* ids that it still has
RunDelete ==
  \E r \in 1..MaxRuns :
    /\ runs[r].pc = "delete"
    /\ store' = DeleteRows(store, runs[r].ids)
    /\ runs' = [runs EXCEPT ![r].pc = "done"]
    /\ UNCHANGED <<duplicates, idsToDelete, resolverVars, runVars, matchVars,
                   thrown, keyVars, adminVars>>

\* another client of the store updates the description of a row
ClientUpdate ==
  /\ runs[MaxRuns + 1].pc = "start"
  /\ \E i \in 1..Len(store), d \in Descriptions :
       /\ d # store[i].description
       /\ store' = [store EXCEPT ![i].description = d]
  /\ runs' = [runs EXCEPT ![MaxRuns + 1].pc = "done"]
  /\ UNCHANGED <<duplicates, idsToDelete, resolverVars, runVars, matchVars,
                 thrown, keyVars, adminVars>>

NextOverlap == RunSnapshot \/ RunDelete \/ ClientUpdate

SpecOverlap == InitOverlap /\ [][NextOverlap]_vars

\* ---------------------------------------------------------------------------
\* useAdmin: the admin check of the signed-in user

\* the largest number of checks one mounted hook starts
MaxChecks == 3

\* the users that can be signed in: with a row in admin_users, with an e-mail
\* address listed in VITE_ADMIN_EMAILS, with neither
Users ==
  { [id |-> "u1", inAdminUsers |-> TRUE, emailListed |-> FALSE],
    [id |-> "u2", inAdminUsers |-> FALSE, emailListed |-> TRUE],
    [id |-> "u3", inAdminUsers |-> FALSE, emailListed |-> FALSE] }

\* sessionData.session.user: nobody or a user
Sessions == { None } \cup { Some(u) : u \in Users }

\* useState(false), useState(true): the hook has rendered, its effect has not run
InitAdmin ==
  /\ session \in Sessions
  /\ checks = <<>>
  /\ isAdmin = FALSE
  /\ loading = TRUE
  /\ mounted = FALSE
  /\ thrown = {}
  /\ original = <<>>
  /\ variant = <<>>
  /\ keyed = <<>>
  /\ runs = <<>>
  /\ store = <<>>
  /\ ran = {}
  /\ duplicates = <<>>
  /\ idsToDelete = <<>>
  /\ chosen = <<>>
  /\ scores = <<>>
  /\ NoRun

\* check() up to its first await: setLoading(true), getSession() is under way
StartCheck == [pc |-> "getSession", user |-> None, result |-> None]

\* the answer of the check for a user: a row in admin_users unless the query
\* failed, else the e-mail address in the list
IsAdminUser(user, error) == (~error /\ user.inAdminUsers) \/ user.emailListed

\* the effect runs: mounted = true, check(), onAuthStateChange subscribed
Mount ==
  /\ ~mounted /\ checks = <<>>
  /\ mounted' = TRUE
  /\ loading' = TRUE
  /\ checks' = <<StartCheck>>
  /\ UNCHANGED <<session, isAdmin>>
  /\ UNCHANGED <<store, duplicates, idsToDelete, resolverVars, runVars, matchVars,
                 thrown, keyVars, runs>>

\* the auth state changes and the subscribed callback calls check()
AuthStateChange ==
  /\ mounted /\ Len(checks) < MaxChecks
  /\ session' \in Sessions
  /\ loading' = TRUE
  /\ checks' = Append(checks, StartCheck)
  /\ UNCHANGED <<isAdmin, mounted>>
  /\ UNCHANGED <<store, duplicates, idsToDelete, resolverVars, runVars, matchVars,
                 thrown, keyVars, runs>>

\* getSession() of a check settles: without a user the check ends with
\* setIsAdmin(false), with one it goes on to the admin_users query; a rejection
\* goes to catch and finally
CheckGetSession ==
  \E i \in 1..Len(checks), rejected \in BOOLEAN :
    /\ checks[i].pc = "getSession"
    /\ IF rejected \/ session = None
       THEN /\ checks' = [checks EXCEPT ![i] = [pc |-> "done", user |-> None, result |-> Some(FALSE)]]
            /\ isAdmin' = IF mounted THEN FALSE ELSE isAdmin
            /\ loading' = IF mounted THEN FALSE ELSE loading
       ELSE /\ checks' = [checks EXCEPT ![i] = [pc |-> "query", user |-> session, result |-> None]]
            /\ UNCHANGED <<isAdmin, loading>>
    /\ UNCHANGED <<session, mounted>>
    /\ UNCHANGED <<store, duplicates, idsToDelete, resolverVars, runVars, matchVars,
                   thrown, keyVars, runs>>

\* the admin_users query of a check settles: setIsAdmin of the answer, then
\* setLoading(false), both only while mounted; a rejection gives false
CheckQuery ==
  \E i \in 1..Len(checks), error \in BOOLEAN, rejected \in BOOLEAN :
    /\ checks[i].pc = "query"
    /\ LET verdict == ~rejected /\ IsAdminUser(checks[i].user[1], error)
       IN /\ checks' = [checks EXCEPT ![i] = [pc |-> "done", user |-> checks[i].user,
                                              result |-> Some(verdict)]]
          /\ isAdmin' = IF mounted THEN verdict ELSE isAdmin
    /\ loading' = IF mounted THEN FALSE ELSE loading
    /\ UNCHANGED <<session, mounted>>
    /\ UNCHANGED <<store, duplicates, idsToDelete, resolverVars, runVars, matchVars,
                   thrown, keyVars, runs>>

\* the cleanup of the effect: mounted = false, unsubscribe
Unmount ==
  /\ mounted
  /\ mounted' = FALSE
  /\ UNCHANGED <<session, checks, isAdmin, loading>>
  /\ UNCHANGED <<store, duplicates, idsToDelete, resolverVars, runVars, matchVars,
                 thrown, keyVars, runs>>

NextAdmin == Mount \/ AuthStateChange \/ CheckGetSession \/ CheckQuery \/ Unmount

SpecAdmin == InitAdmin /\ [][NextAdmin]_vars

\* ---------------------------------------------------------------------------
\* The two normalisations applied to a pair of names

\* the longest name of the pair
MaxName == 3

\* the characters the names are made of: letters in both cases, a space, an
\* apostrophe and a letter with an accent
NameChars == { "a", "A", "b", " ", "'", "U+00E9" }

NameTexts == UNION { [1..n -> NameChars] : n \in 0..MaxName }

\* the letters and digits of a name, lower-cased: what is left of it when letter
\* case and the characters outside [A-Za-z0-9] are disregarded
LettersAndDigits(s) == SelectSeq(toLowerCase(s), LAMBDA c : c \in AlnumLower)

\* two names that differ in letter case and in characters outside [A-Za-z0-9] only
InitKey ==
  /\ original \in NameTexts
  /\ variant \in { t \in NameTexts : LettersAndDigits(t) = LettersAndDigits(original) }
  /\ keyed = <<>>
  /\ thrown = {}
  /\ session = None
  /\ checks = <<>>
  /\ isAdmin = FALSE
  /\ loading = FALSE
  /\ mounted = FALSE
  /\ runs = <<>>
  /\ store = <<>>
  /\ ran = {}
  /\ duplicates = <<>>
  /\ idsToDelete = <<>>
  /\ chosen = <<>>
  /\ scores = <<>>
  /\ NoRun

\* the value of keyed after one normalisation has been applied to both names
Keyed(by, a, b) ==
  [x \in DOMAIN keyed \cup {by} |->
     IF x = by THEN [original |-> a, variant |-> b] ELSE keyed[x]]

\* normalize of remove_duplicates.mjs applied to the two names
ScriptNormalize ==
  /\ "normalize" \notin DOMAIN keyed
  /\ keyed' = Keyed("normalize", normalize(original), normalize(variant))
  /\ UNCHANGED <<store, duplicates, idsToDelete, resolverVars, runVars, matchVars,
                 thrown, original, variant, adminVars, runs>>

\* normalizeForKey of the pages applied to the two names
PageNormalizeForKey ==
  /\ "normalizeForKey" \notin DOMAIN keyed
  /\ keyed' = Keyed("normalizeForKey", normalizeForKey(original), normalizeForKey(variant))
  /\ UNCHANGED <<store, duplicates, idsToDelete, resolverVars, runVars, matchVars,
                 thrown, original, variant, adminVars, runs>>

NextKey == ScriptNormalize \/ PageNormalizeForKey

SpecKey == InitKey /\ [][NextKey]_vars

\* ---------------------------------------------------------------------------
\* Properties of the runs

\* C1: no delete request is sent unless an affirmative confirmation (YES typed,
\* --yes/-y, or the confirm dialog accepted) happened earlier in the run; any
\* other answer, or none, ends the run with the store unchanged
C1_NoDeleteWithoutConfirmation ==
  LET typedYes == answer # None /\ trim(answer[1]) = <<"Y","E","S">>
      declined == \/ (~AUTO_YES /\ answer # None /\ ~typedYes)
                  \/ dialog = "cancel"
                  \/ pc = "unanswered"
  IN /\ requests # <<>> => (AUTO_YES \/ typedYes \/ dialog = "ok")
     /\ declined => /\ requests = <<>>
                    /\ store = before
                    /\ pc \in {"aborted", "returned", "unanswered"}

\* a script run that asked, got YES typed, and deleted
C1_Witness ==
  /\ program = "remove_duplicates"
  /\ ~AUTO_YES
  /\ answer = Some(<<" ","Y","E","S">>)
  /\ pc = "done"
  /\ requests # <<>>
  /\ store # before

\* C9: in every duplicate-removal run the full plan (groups, keeper, removed
\* rows, timestamp) is written to a backup before the first delete request
C9_BackupBeforeDelete ==
  \A n \in 1..Len(requests) :
    requests[n].by \in {"remove_duplicates", "admin_remove_duplicates"} =>
      \E b \in 1..Len(backups) :
        /\ backups[b].kind = "json"
        /\ backups[b].timestamp = "now"
        /\ \A m \in 1..Len(requests[n].ids) :
             \E g \in 1..Len(backups[b].groups) :
               \E j \in 1..Len(backups[b].groups[g].remove) :
                 backups[b].groups[g].remove[j].id = requests[n].ids[m]

\* C10: every delete request of a batch caller carries at most 100 ids, and
\* once the run is through every planned id was in exactly one request
C10_ChunksOfAtMost100 ==
  LET planned == IF program = "remove_duplicates" THEN toDelete ELSE idsToDelete
  IN /\ \A n \in 1..Len(requests) : Len(requests[n].ids) <= 100
     /\ pc \in {"done", "refresh"} =>
          \A m \in 1..Len(planned) :
            Cardinality({<<n, k>> \in (1..Len(requests)) \X (1..batchSize) :
                           k <= Len(requests[n].ids) /\ requests[n].ids[k] = planned[m]}) = 1

\* ---------------------------------------------------------------------------
\* Properties of the resolver

\* C2: within a group, of two rows with equal score the one with the lexically
\* smaller id is ordered first and is the one kept, whatever the input order
\* and whatever the other columns (description length) are
C2_EqualScoreSmallerIdFirst ==
  /\ "script" \in ran =>
       \A g \in 1..Len(duplicates) :
         LET seq == <<duplicates[g].keep>> \o duplicates[g].remove
         IN \A i, j \in 1..Len(seq) :
              (i < j /\ ScriptScore(seq[i]) = ScriptScore(seq[j]))
                => localeCompare(seq[i].id, seq[j].id) < 0
  /\ "admin" \in ran =>
       LET rows == SelectAdminColumns(store)
           gone == {idsToDelete[n] : n \in 1..Len(idsToDelete)}
       IN \A i, j \in 1..Len(rows) :
            (/\ KeyOf(rows[i]) = KeyOf(rows[j])
             /\ rows[i].id \notin gone /\ rows[j].id \in gone
             /\ AdminScore(rows[i]) = AdminScore(rows[j]))
              => localeCompare(rows[i].id, rows[j].id) < 0
  /\ "list" \in ran =>
       LET rows == SelectWithImages(store)
       IN \A c \in 1..Len(chosen) : \A j \in 1..Len(rows) :
            (/\ KeyOf(rows[j]) = KeyOf(chosen[c])
             /\ rows[j].id # chosen[c].id
             /\ ListScore(rows[j]) = ListScore(chosen[c]))
              => localeCompare(chosen[c].id, rows[j].id) < 0

\* C3: in every group of two or more rows the keeper's score is at least the
\* score of every remove candidate, and the remove candidates are listed in
\* descending score order (each implementation with its own score)
C3_KeeperHasTopScore ==
  /\ "script" \in ran =>
       \A g \in 1..Len(duplicates) :
         LET rem == duplicates[g].remove
         IN /\ \A j \in 1..Len(rem) :
                 ScriptScore(duplicates[g].keep) >= ScriptScore(rem[j])
            /\ \A j, k \in 1..Len(rem) :
                 j < k => ScriptScore(rem[j]) >= ScriptScore(rem[k])
  /\ "admin" \in ran =>
       LET rows == SelectAdminColumns(store)
           row(id) == rows[CHOOSE i \in 1..Len(rows) : rows[i].id = id]
           gone == {idsToDelete[n] : n \in 1..Len(idsToDelete)}
       IN /\ \A i, j \in 1..Len(rows) :
               (/\ KeyOf(rows[i]) = KeyOf(rows[j])
                /\ rows[i].id \notin gone /\ rows[j].id \in gone)
                 => AdminScore(rows[i]) >= AdminScore(rows[j])
          /\ \A m, n \in 1..Len(idsToDelete) :
               (m < n /\ KeyOf(row(idsToDelete[m])) = KeyOf(row(idsToDelete[n])))
                 => AdminScore(row(idsToDelete[m])) >= AdminScore(row(idsToDelete[n]))
  /\ "list" \in ran =>
       LET rows == SelectWithImages(store)
       IN \A c \in 1..Len(chosen) : \A j \in 1..Len(rows) :
            KeyOf(rows[j]) = KeyOf(chosen[c]) => ListScore(chosen[c]) >= ListScore(rows[j])

\* a group of three whose two remove candidates have different scores, and
\* the admin handler and the list view have resolved the same rows
C3_Witness ==
  /\ ran = {"script", "admin", "list"}
  /\ \E g \in 1..Len(duplicates) :
       /\ Len(duplicates[g].remove) = 2
       /\ ScriptScore(duplicates[g].remove[1]) > ScriptScore(duplicates[g].remove[2])
       /\ ScriptScore(duplicates[g].keep) >= ScriptScore(duplicates[g].remove[1])

\* C5: the script, the admin handler and the list view resolve every list the
\* same way: the same rows are removed and the same row is kept in every group
C5_ImplementationsAgree ==
  ran = {"script", "admin", "list"} =>
    LET removed == {FlatIds(duplicates)[n] : n \in 1..Len(FlatIds(duplicates))}
        gone == {idsToDelete[n] : n \in 1..Len(idsToDelete)}
        kept == {chosen[c].id : c \in 1..Len(chosen)}
        all == {store[i].id : i \in 1..Len(store)}
    IN /\ removed = gone
       /\ kept = all \ gone

C7_SingletonsUntouched ==
  LET rows == SelectAll(store)
      alone == {i \in 1..Len(rows) : \A j \in 1..Len(rows) : j # i => KeyOf(rows[j]) # KeyOf(rows[i])}
  IN \A i \in alone :
       /\ "script" \in ran =>
            \A g \in 1..Len(duplicates) :
              /\ duplicates[g].keep.id # rows[i].id
              /\ \A j \in 1..Len(duplicates[g].remove) : duplicates[g].remove[j].id # rows[i].id
       /\ "admin" \in ran =>
            \A n \in 1..Len(idsToDelete) : idsToDelete[n] # rows[i].id

\* a resolved input holding a row that is alone in its group, next to a
\* group of two
C7_Witness ==
  /\ {"script", "admin"} \subseteq ran
  /\ duplicates # <<>>
  /\ idsToDelete # <<>>
  /\ \E i \in 1..Len(store) : \A j \in 1..Len(store) : j # i => KeyOf(store[j]) # KeyOf(store[i])

\* C4: the score of a row is 2*[description present, non-empty after trimming]
\* + 1*[province_id non-null] + 2*[image_url non-null and non-empty]
\* + 1*[location_lat or location_lng present]; nothing else counts (attached
\* images, a coordinate of 0), and the score is within 0..6
C4_ScoreFormula ==
  LET row == store[1]
      claimed ==
          (IF row.description # None /\ trim(row.description[1]) # <<>> THEN 2 ELSE 0)
        + (IF row.province_id # None THEN 1 ELSE 0)
        + (IF row.image_url # None /\ row.image_url[1] # <<>> THEN 2 ELSE 0)
        + (IF row.location_lat # None \/ row.location_lng # None THEN 1 ELSE 0)
  IN \A x \in ran : scores[x] = claimed /\ scores[x] \in 0..6

\* ---------------------------------------------------------------------------
\* Properties of failure handling

\* C11: every update or delete that failed is reported in an error line that
\* names its id and carries the error message, and the number announced as
\* assigned does not count a failed update
C11_FailedIdsReported ==
  LET NamesId(n, id) == \E m \in 1..Len(console[n].ids) : console[n].ids[m] = id
      failedUpdates == { k \in 1..Len(updates) : updates[k].error # None }
      announced == { n \in 1..Len(console) :
                       console[n].text = "Assigned local images to destinations." }
  IN /\ \A k \in failedUpdates :
          \E n \in 1..Len(console) :
            /\ console[n].out = "error"
            /\ console[n].message = Some(updates[k].error[1].message)
            /\ NamesId(n, updates[k].id)
     /\ \A n \in announced :
          console[n].count[1] <= Len(updates) - Cardinality(failedUpdates)
     /\ (program = "remove_duplicates" /\ pc = "failed_delete") =>
          \A m \in 1..Len(requests[Len(requests)].ids) :
            \E n \in 1..Len(console) :
              /\ console[n].out = "error"
              /\ console[n].message # None
              /\ NamesId(n, requests[Len(requests)].ids[m])

\* C12: no planned id is sent in two delete requests, and once a batch of the
\* script returned an error the run is over with exit code 1, the error line
\* being the last thing it did: no batch is sent after it
C12_NoRetryAfterFailedBatch ==
  LET planned == IF program = "remove_duplicates" THEN toDelete ELSE idsToDelete
      errors == { n \in 1..Len(console) : console[n].text = "Error deleting batch:" }
      deleted == { n \in 1..Len(console) : console[n].text = "Deleted batch: rows" }
  IN /\ \A m \in 1..Len(planned) :
          Cardinality({ <<n, k>> \in (1..Len(requests)) \X (1..Len(planned)) :
                          k <= Len(requests[n].ids) /\ requests[n].ids[k] = planned[m] }) <= 1
     /\ program = "remove_duplicates" =>
          /\ Len(requests) = Cardinality(errors) + Cardinality(deleted)
          /\ errors # {} => /\ errors = { Len(console) }
                            /\ pc = "failed_delete"
                            /\ exitCode = Some(1)

\* the first of two batches failed and the second was never sent
C12_Witness ==
  /\ program = "remove_duplicates"
  /\ pc = "failed_delete"
  /\ Len(toDelete) > batchSize
  /\ Len(requests) = 1
  /\ Len(requests[1].ids) = batchSize

\* C13: a single delete is announced as done only if the row is gone when the
\* follow-up query runs, and a row still there after a delete request without
\* error ends in the 'still exists' failure, not in the request-error report
C13_DeletedOnlyWhenVerified ==
  LET present == \E n \in 1..Len(store) : store[n].id = targetId
      announcedDeleted ==
        \E n \in 1..Len(console) :
          console[n].text \in
            { "Destination deleted successfully.", "Deleted: removed.",
              "Deleted (verification failed): Delete request completed; could not verify result due to a follow-up query error." }
      requestError ==
        \E n \in 1..Len(console) :
          console[n].text \in { "Error deleting destination:", "Error deleting",
                                "Permission denied: Delete blocked by RLS/policies." }
  IN program \in {"delete_destination", "admin_delete"} =>
       /\ announcedDeleted => ~present
       /\ pc \in {"failed_still_exists", "delete_failed"} => present /\ ~requestError

\* C14: a script launched without a URL or without a key, or the image script
\* without its pictures directory, has sent no query, written no backup and
\* changed nothing, and ends with exit code 1 and an error line
C14_MissingCredentialOrPathIsFatal ==
  LET urlSet == TruthyStr(env.SUPABASE_URL) \/ TruthyStr(env.VITE_SUPABASE_URL)
      keySet == \/ TruthyStr(env.SUPABASE_SERVICE_ROLE_KEY)
                \/ TruthyStr(env.SUPABASE_KEY)
                \/ TruthyStr(env.VITE_SUPABASE_KEY)
      noCredential == ~urlSet \/ ~keySet
      noPictures == program = "assign_local_images" /\ pictures = None
      untouched == /\ selects = 0 /\ backups = <<>> /\ updates = <<>> /\ requests = <<>>
                   /\ store = before
      fatal == /\ exitCode = Some(1)
               /\ console # <<>>
               /\ console[Len(console)].out = "error"
  IN /\ noCredential => /\ untouched
                        /\ pc \in {"launch", "fatal_credentials"}
                        /\ pc = "fatal_credentials" => fatal
     /\ (noPictures /\ ~noCredential) =>
          /\ untouched
          /\ pc \in {"launch", "start", "fatal_pictures"}
          /\ pc = "fatal_pictures" => fatal

\* the duplicate script launched with a URL and no key has ended
C14_Witness ==
  /\ program = "remove_duplicates"
  /\ env.SUPABASE_URL = Some(<<"u">>)
  /\ pc = "fatal_credentials"
  /\ exitCode = Some(1)
  /\ before # <<>>

\* C15: when the id given to the delete script is not in the table, the script
\* says that nothing was found and exits with code 0, having prompted for
\* nothing and sent no delete request
C15_NotFoundIsReportedNotFatal ==
  LET exists == \E n \in 1..Len(before) : before[n].id = targetId
  IN (program = "delete_destination" /\ ~exists /\ pc \notin {"start", "failed_fetch"}) =>
       /\ pc = "nothing"
       /\ console[Len(console)] =
            Say("log", "No destination found with that id. Nothing to delete.")
       /\ exitCode = Some(0)
       /\ answer = None
       /\ requests = <<>>
       /\ store = before

\* the delete script was given an id that none of the rows of the table has
C15_Witness ==
  /\ program = "delete_destination"
  /\ before # <<>>
  /\ \A n \in 1..Len(before) : before[n].id # targetId
  /\ pc = "nothing"

\* ---------------------------------------------------------------------------
\* Properties of the picture matcher and the fallback texts

\* the pages that choose one picture for a destination and consult an override
OverridePages == { "detail", "list" }

\* C16: for a destination without stored image, when the manual override resolves
\* to a file and the generic match puts another file first, the picture a page
\* chooses is the override's file, on the detail page and on the list page
C16_OverrideIsPrimary ==
  \A page \in OverridePages \cap DOMAIN shown :
    ( /\ entity[1].destination_images = <<>>
      /\ shown[page].manual # None
      /\ shown[page].locals # <<>>
      /\ shown[page].locals[1] # shown[page].manual[1] )
    => shown[page].image = shown[page].manual


\* C17: on every page, findLocalImages(name) returns exactly the candidates whose
\* key contains the key of the name, or whose key is contained in it, or whose
\* lower-cased filename or path contains a token of the lower-cased name,
\* candidates with an empty key and names with an empty key included
C17_FindLocalImagesIsTheThreeWayTest ==
  \A page \in DOMAIN shown :
    LET name == entity[1].name.value
        key == normalizeForKey(name)
        tokens == SplitAlnum(toLowerCase(name))
    IN shown[page].locals =
         UrlsOf(SelectSeq(shown[page].entries, LAMBDA c :
           \/ Includes(c.key, key)
           \/ Includes(key, c.key)
           \/ \E t \in 1..Len(tokens) :
                \/ Includes(toLowerCase(c.filename), tokens[t])
                \/ Includes(toLowerCase(c.path), tokens[t])))


\* the enumeration of the pictures a page matches against
EnumerationOf(page) ==
  IF page = "detail" THEN DetailLocalImages(localImages) ELSE ListLocalImages(localImages)

\* the place of a picture in an enumeration
PlaceIn(images, url) == CHOOSE i \in 1..Len(images) : UrlOf(images[i]) = url

\* C18: the list findLocalImages returns is a stable partition of the matches:
\* every match under src/pictures precedes every match under src/assets, and two
\* matches of the same root keep the order they had in the enumeration
C18_StablePartition ==
  \A page \in OverridePages \cap DOMAIN shown :
    LET locals == shown[page].locals
        images == EnumerationOf(page)
    IN \A i, j \in 1..Len(locals) :
         i < j =>
           /\ ~(~picPattern(locals[i]) /\ picPattern(locals[j]))
           /\ picPattern(locals[i]) = picPattern(locals[j])
                => PlaceIn(images, locals[i]) < PlaceIn(images, locals[j])

\* both pages have matched the destination; the detail page returns matches of
\* both roots with two of one root, the list page matches of both roots
C18_Witness ==
  /\ OverridePages \subseteq DOMAIN shown
  /\ Len(shown["detail"].locals) = 3
  /\ \E i, j \in 1..3 : picPattern(shown["detail"].locals[i]) /\ ~picPattern(shown["detail"].locals[j])
  /\ Len(shown["list"].locals) = 2
  /\ \E i, j \in 1..2 : picPattern(shown["list"].locals[i]) /\ ~picPattern(shown["list"].locals[j])


\* the pages that show a description of the destination
TextPages == { "detail", "list" }

\* C19: on every page that shows a description, the text displayed (the stored
\* description if any, else the fallback for the name) is a non-empty string
C19_TextNeverEmpty ==
  \A page \in TextPages \cap DOMAIN shown :
    /\ shown[page].text.type = "string"
    /\ Rendered(shown[page].text) # <<>>

\* C20: for a destination without description whose name matches no text
\* override and no fallback pattern, the card shows the generated sentence, and
\* the sentence contains the name and, the province being known, the province
C20_GeneratedTextNamesTheProvince ==
  LET d == entity[1]
  IN ( /\ "list" \in DOMAIN shown
       /\ ~Truthy(DescriptionValue(d.description))
       /\ ~Truthy(ListManualText(normalizeForKey(d.name.value)))
       /\ FindPattern(fallbackSnippets, d.name.value) = <<>> )
     => /\ shown["list"].text.type = "string"
        /\ Includes(shown["list"].text.value, <<"E","x","p","l","o","r","e"," ">> \o d.name.value)
        /\ d.province # <<>> => Includes(shown["list"].text.value, d.province)


\* ---------------------------------------------------------------------------
\* Properties of the image-assignment script

\* C29: run with --dry-run, with or without --yes, the image-assignment script
\* sends no update request and exits before the confirmation prompt
C29_DryRunUpdatesNothing ==
  (program = "assign_local_images" /\ DRY_RUN)
    => /\ updates = <<>>
       /\ store = before
       /\ answer = None
       /\ pc \notin {"prompt", "update", "aborted", "unanswered", "done"}

\* a dry run given --yes as well has printed its plan and exited
C29_Witness ==
  /\ program = "assign_local_images"
  /\ DRY_RUN /\ AUTO_YES
  /\ pc = "dry_run"
  /\ assignments # <<>>
  /\ exitCode = Some(0)


\* ---------------------------------------------------------------------------
\* Properties of the scoring order

\* the scoring attributes present on a row, by the tests the scoring applies
AttributesOf(item) ==
  { attribute \in {"description", "province", "image", "coordinates"} :
      \/ attribute = "description" /\ TruthyStr(item.description)
                                   /\ Len(trim(item.description[1])) > 0
      \/ attribute = "province" /\ TruthyStr(item.province_id)
      \/ attribute = "image" /\ TruthyStr(item.image_url)
      \/ attribute = "coordinates" /\ (TruthyNum(item.location_lat) \/ TruthyNum(item.location_lng)) }

\* C24: in a group, a row A whose scoring attributes include those of a row B
\* scores at least as much as B, and B is kept in place of A only when the
\* scores are equal and the id of B sorts before the id of A
C24_SupersetNeverLoses ==
  /\ "script" \in ran =>
       \A g \in 1..Len(duplicates) : \A j \in 1..Len(duplicates[g].remove) :
         LET B == duplicates[g].keep
             A == duplicates[g].remove[j]
         IN AttributesOf(B) \subseteq AttributesOf(A) =>
              /\ ScriptScore(A) >= ScriptScore(B)
              /\ ScriptScore(A) = ScriptScore(B) /\ localeCompare(B.id, A.id) < 0
  /\ "admin" \in ran =>
       LET rows == SelectAdminColumns(store)
           gone == {idsToDelete[n] : n \in 1..Len(idsToDelete)}
       IN \A i, j \in 1..Len(rows) :
            (/\ KeyOf(rows[i]) = KeyOf(rows[j])
             /\ rows[i].id \in gone /\ rows[j].id \notin gone
             /\ AttributesOf(rows[j]) \subseteq AttributesOf(rows[i]))
              => /\ AdminScore(rows[i]) >= AdminScore(rows[j])
                 /\ AdminScore(rows[i]) = AdminScore(rows[j])
                 /\ localeCompare(rows[j].id, rows[i].id) < 0


\* ---------------------------------------------------------------------------
\* Properties of odd names

\* a name that is null, empty, or made of characters outside [A-Za-z0-9] only
WithoutAlnum(name) ==
  \/ name = None
  \/ \A i \in 1..Len(name[1]) : ToLowerChar(name[1][i]) \notin AlnumLower

\* C25: the rows whose name is null, empty, blank or without any letter or digit
\* all get the empty key and are together in one group, and that group is
\* resolved as any other: one row kept, the others removed, nothing raised
C25_EmptyKeyIsOneGroup ==
  LET E == {store[i].id : i \in {n \in 1..Len(store) : WithoutAlnum(store[n].name)}}
      lists == GroupLists(store)
      gone == {idsToDelete[n] : n \in 1..Len(idsToDelete)}
      kept == {chosen[c].id : c \in 1..Len(chosen)}
  IN /\ \A i \in 1..Len(store) : WithoutAlnum(store[i].name) => KeyOf(store[i]) = <<>>
     /\ \A g \in 1..Len(lists) :
          (\E m \in 1..Len(lists[g]) : lists[g][m].id \in E)
            => {lists[g][m].id : m \in 1..Len(lists[g])} = E
     /\ ~GroupingRaises(store) => thrown = {}
     /\ ("script" \in ran \ thrown /\ Cardinality(E) >= 2) =>
          \E g \in 1..Len(duplicates) :
            /\ duplicates[g].keep.id \in E
            /\ Len(duplicates[g].remove) = Cardinality(E) - 1
            /\ {duplicates[g].remove[j].id : j \in 1..Len(duplicates[g].remove)}
                 = E \ {duplicates[g].keep.id}
     /\ ("admin" \in ran \ thrown /\ Cardinality(E) >= 2) =>
          Cardinality(E \ gone) = 1
     /\ ("list" \in ran \ thrown /\ Cardinality(E) >= 1) =>
          Cardinality(E \cap kept) = 1

\* three rows named null, '' and '!?' have been resolved by the script, the
\* admin handler and the list view
C25_Witness ==
  /\ ran = {"script", "admin", "list"}
  /\ thrown = {}
  /\ Len(store) = 3
  /\ {store[i].name : i \in 1..Len(store)} = {None, Some(<<>>), Some(<<"!","?">>)}
  /\ Len(duplicates) = 1 /\ Len(duplicates[1].remove) = 2
  /\ Len(idsToDelete) = 2
  /\ Len(chosen) = 1


\* C30: dedupeDestinations returns a subsequence of its input, the chosen rows in
\* the order they had in the input, with exactly one row for every distinct key
\* of the input
C30_DedupeIsSubsequenceOnePerKey ==
  "list" \in ran =>
    LET rows == SelectWithImages(store)
        place(c) == CHOOSE i \in 1..Len(rows) : rows[i].id = chosen[c].id
    IN /\ "list" \notin thrown
       /\ \A c \in 1..Len(chosen) : \E i \in 1..Len(rows) : rows[i] = chosen[c]
       /\ \A c, e \in 1..Len(chosen) : c < e => place(c) < place(e)
       /\ \A i \in 1..Len(rows) :
            Cardinality({c \in 1..Len(chosen) : KeyOf(chosen[c]) = KeyOf(rows[i])}) = 1


\* ---------------------------------------------------------------------------
\* Properties of the store after duplicate removal

\* C26: a duplicate-removal run never puts the id of a keeper in a delete
\* request, and when it has completed without reporting an error, the store
\* holds, for every key present before the run, exactly the keeper of its group
C26_OneKeeperPerKeyRemains ==
  program \in {"remove_duplicates", "admin_remove_duplicates"} =>
    LET lists == IF program = "remove_duplicates" THEN GroupLists(SelectAll(before))
                 ELSE GroupLists(SelectAdminColumns(before))
        keeperOf(g) == IF program = "remove_duplicates" THEN ScriptScored(lists[g])[1].item.id
                       ELSE AdminScored(lists[g])[1].item.id
        keepers == {keeperOf(g) : g \in 1..Len(lists)}
        errorFree == \A m \in 1..Len(console) : console[m].out \notin {"error", "toast_destructive"}
        completed == \/ program = "remove_duplicates" /\ pc \in {"done", "nothing"}
                     \/ program = "admin_remove_duplicates" /\ pc = "returned" /\ dialog = "ok"
    IN /\ \A n \in 1..Len(requests) : \A k \in 1..Len(requests[n].ids) :
            requests[n].ids[k] \notin keepers
       /\ (completed /\ errorFree) => {store[i].id : i \in 1..Len(store)} = keepers


\* ---------------------------------------------------------------------------
\* Properties of the normalisations

C21_OverrideThenFirstPattern ==
  \A page \in DOMAIN shown \cap { "detail", "list" } :
    LET name == entity[1].name
        key == normalizeForKey(StringOrEmpty(name).value)
        table == IF page = "detail" THEN fallbackDescriptions ELSE fallbackSnippets
        overrideKeys == IF page = "detail" THEN DetailManualTextKeys
                        ELSE { <<"d","i","y","a","l","u","m","a","f","a","l","l","s">> }
        manualText == IF page = "detail" THEN DetailManualText(key) ELSE ListManualText(key)
        matching == { i \in 1..Len(table) :
                        \E alt \in table[i].pattern : Includes(toLowerCase(ToStringValue(name)), alt) }
    IN IF key \in overrideKeys THEN shown[page].fallback = manualText
       ELSE matching # {} =>
              \E i \in matching :
                /\ \A j \in matching : i <= j
                /\ shown[page].fallback = TextValue(table[i].text)

\* the detail page has looked up a name that has a manual text and matches a
\* pattern with another text
C21_Witness ==
  /\ "detail" \in DOMAIN shown
  /\ normalizeForKey(entity[1].name.value) \in DetailManualTextKeys
  /\ FindPattern(fallbackDescriptions, entity[1].name.value) # <<>>
  /\ shown["detail"].fallback # TextValue(FindPattern(fallbackDescriptions, entity[1].name.value)[1].text)

\* C22: whatever the name is, null, undefined and the empty text included,
\* no lookup raises, findLocalImages gives a list (empty or not),
\* findManualOverride a url or null, and the fallback text lookup a value or null
C22_LookupsAreTotal ==
  \A page \in DOMAIN shown :
    LET urls == { shown[page].entries[i].url : i \in DOMAIN shown[page].entries }
    IN /\ ~shown[page].raised
       /\ DOMAIN shown[page].locals = 1..Len(shown[page].locals)
       /\ \A i \in DOMAIN shown[page].locals : shown[page].locals[i] \in urls
       /\ shown[page].manual \in { None } \cup { Some(u) : u \in urls }
       /\ page # "admin" => shown[page].fallback.type # "undefined"

\* the three pages have looked up a name that is null or undefined with a
\* picture on disk: the empty key is part of every key, no text is found
C22_Witness ==
  /\ DOMAIN shown = Pages
  /\ entity[1].name \in { NullValue, UndefinedValue }
  /\ shown["detail"].fallback = NullValue
  /\ shown["list"].entries # <<>>
  /\ shown["list"].locals = UrlsOf(shown["list"].entries)
  /\ shown["detail"].manual = None

\* C27: when runs of the duplicate removal overlap, or another client updates a
\* row between a run's snapshot and its deletes, every key a run has seen a row
\* of still has a row in the store
C27_NoKeyLosesAllItsEntities ==
  \A r \in DOMAIN runs :
    \A i \in 1..Len(runs[r].snapshot) :
      \E j \in 1..Len(store) : KeyOf(store[j]) = KeyOf(runs[r].snapshot[i])

\* C28: once every check a mounted useAdmin has started is complete, isAdmin is
\* the answer of the check started last, the one for the most recent auth state
C28_LastCheckWins ==
  ( /\ mounted
    /\ checks # <<>>
    /\ \A i \in 1..Len(checks) : checks[i].pc = "done" )
  => isAdmin = checks[Len(checks)].result[1]

=============================================================================
